---------------------------- MODULE Spec2Model ----------------------------
(***************************************************************************)
(* A model of le0.py: the IRC session loop (IRCBot.run), the command       *)
(* dispatcher (IRCBot.handle_command), the rate limiter and the Sanitizer. *)
(*                                                                         *)
(* Text is a sequence of units.  A unit is one character ("a", " ", "\r")  *)
(* or, for text the program itself produces from its theme helpers, one    *)
(* named fixed string ("<err>", "Usage: ") that holds no CR and no LF.     *)
(* Everything that comes from the network is character by character.       *)
(* Time is counted in tenths of a second.                                  *)
(***************************************************************************)
EXTENDS Integers, Sequences, FiniteSets, TLC

VARIABLES scn, pos, eof, clock, phase, pc, buffer, pending, connected,
          seen_users, quotes, user_last_cmd, out, log, arrived, faults, ticks,
          exit

vars == <<scn, pos, eof, clock, phase, pc, buffer, pending, connected,
          seen_users, quotes, user_last_cmd, out, log, arrived, faults, ticks,
          exit>>

(***************************************************************************)
(* Bounds of the model.                                                    *)
(***************************************************************************)
MaxFaults == 1
MaxTicks == 1
LongLen == 101

(***************************************************************************)
(* Python str operations, as the source uses them.                         *)
(***************************************************************************)
CR == "\r"
LF == "\n"
CRLF == <<CR, LF>>

LowerAlpha == <<"a","b","c","d","e","f","g","h","i","j","k","l","m",
                "n","o","p","q","r","s","t","u","v","w","x","y","z">>
UpperAlpha == <<"A","B","C","D","E","F","G","H","I","J","K","L","M",
                "N","O","P","Q","R","S","T","U","V","W","X","Y","Z">>
Digits == {"0","1","2","3","4","5","6","7","8","9"}
Range(s) == {s[i] : i \in 1..Len(s)}

\* [\x00-\x1f\x7f] over the model's alphabet: CR, LF, TAB and ^B (bold).
ControlChars == {CR, LF, "\t", "^B"}
\* What str.strip() and str.split() treat as whitespace.
Whitespace == {" ", CR, LF, "\t"}

lowerChar(c) ==
    IF c \in Range(UpperAlpha)
    THEN LowerAlpha[CHOOSE i \in 1..26 : UpperAlpha[i] = c]
    ELSE c
lower(s) == [i \in 1..Len(s) |-> lowerChar(s[i])]

OccursAt(s, p, i) ==
    /\ i >= 1
    /\ i + Len(p) - 1 <= Len(s)
    /\ \A k \in 1..Len(p) : s[i + k - 1] = p[k]
Occurrences(s, p) == {i \in 1..(Len(s) - Len(p) + 1) : OccursAt(s, p, i)}
Min(S) == CHOOSE x \in S : \A y \in S : x <= y
Max(S) == CHOOSE x \in S : \A y \in S : x >= y
\* p in s
contains(s, p) == Occurrences(s, p) # {}
\* s.startswith(p)
startswith(s, p) == OccursAt(s, p, 1)
\* s.replace(old, new, 1)
replace1(s, old, new) ==
    IF Occurrences(s, old) = {} THEN s
    ELSE LET i == Min(Occurrences(s, old))
         IN SubSeq(s, 1, i - 1) \o new \o SubSeq(s, i + Len(old), Len(s))
\* s.split(d) for a non-empty delimiter d
RECURSIVE split(_, _)
split(s, d) ==
    IF Occurrences(s, d) = {} THEN <<s>>
    ELSE LET i == Min(Occurrences(s, d))
         IN <<SubSeq(s, 1, i - 1)>> \o split(SubSeq(s, i + Len(d), Len(s)), d)
\* s.strip()
strip(s) ==
    LET keep == {i \in 1..Len(s) : s[i] \notin Whitespace}
    IN IF keep = {} THEN <<>> ELSE SubSeq(s, Min(keep), Max(keep))
\* s.split(): the maximal runs of non-whitespace
RECURSIVE words(_)
words(s) ==
    LET t == strip(s)
        sp == {i \in 1..Len(t) : t[i] \in Whitespace}
    IN IF t = <<>> THEN <<>>
       ELSE IF sp = {} THEN <<t>>
       ELSE <<SubSeq(t, 1, Min(sp) - 1)>> \o words(SubSeq(t, Min(sp), Len(t)))
\* " ".join(parts[k:])
RECURSIVE joinFrom(_, _)
joinFrom(parts, k) ==
    IF k > Len(parts) THEN <<>>
    ELSE IF k = Len(parts) THEN parts[k]
    ELSE parts[k] \o <<" ">> \o joinFrom(parts, k + 1)
\* s[:n]
take(s, n) == SubSeq(s, 1, IF Len(s) < n THEN Len(s) ELSE n)
\* "\n".join of reply lines, and its inverse result.split('\n')
RECURSIVE joinLines(_)
joinLines(ls) ==
    IF Len(ls) = 0 THEN <<>>
    ELSE IF Len(ls) = 1 THEN ls[1]
    ELSE ls[1] \o <<LF>> \o joinLines(Tail(ls))

(***************************************************************************)
(* bytes <-> str.  The stream carries one two-byte character, e-acute:     *)
(* the bytes "<C3>" "<A9>" decode to the character "<e9>".                 *)
(***************************************************************************)
LeadByte == "<C3>"
ContByte == "<A9>"
WideChar == "<e9>"
\* bytes.decode("UTF-8", errors="ignore"): an incomplete or invalid sequence
\* is dropped without a trace.
decode(b) ==
    LET chars == [i \in 1..Len(b) |->
                    IF b[i] = LeadByte
                    THEN IF i < Len(b) /\ b[i + 1] = ContByte THEN WideChar ELSE ""
                    ELSE IF b[i] = ContByte THEN "" ELSE b[i]]
    IN SelectSeq(chars, LAMBDA c : c # "")
\* bytes(text, "UTF-8")
encode(t) ==
    LET wide == {i \in 1..Len(t) : t[i] = WideChar}
        before(k) == Cardinality({i \in wide : i + Cardinality({j \in wide : j < i}) < k})
    IN IF wide = {} THEN t
       ELSE [k \in 1..(Len(t) + Cardinality(wide)) |->
               LET i == k - before(k)
               IN IF t[i] # WideChar THEN t[i]
                  ELSE IF i + Cardinality({j \in wide : j < i}) = k
                  THEN LeadByte ELSE ContByte]

(***************************************************************************)
(* class Sanitizer                                                         *)
(***************************************************************************)
MAX_LOCATION_LEN == 80
MAX_TERM_LEN == 100
MAX_QUOTE_LEN == 400
MAX_NICK_LEN == 30
MAX_GENERIC_LEN == 200
\* Optional[str]: None is a text no sanitizer can return.
None == <<"None">>

\* SAFE_TEXT_RE removes everything but word characters, whitespace and the
\* listed punctuation (the double quote is not in the model's alphabet).
SafeTextChars ==
    Range(LowerAlpha) \cup Range(UpperAlpha) \cup Digits \cup Whitespace
    \cup {"_", WideChar, "-", ".", ",", "'", "!", "?", "@", "#", "&",
          "(", ")", "/", ":", ";", "+"}
\* The backslash and the backquote are not in the model's alphabet.
NickFirstChars ==
    Range(LowerAlpha) \cup Range(UpperAlpha)
    \cup {"_", "[", "]", "^", "{", "}", "|"}
NickRestChars == NickFirstChars \cup Digits \cup {"-"}
\* NICK_RE.match(nick)
NICK_RE(nick) ==
    /\ Len(nick) >= 1
    /\ Len(nick) <= 30
    /\ nick[1] \in NickFirstChars
    /\ \A i \in 2..Len(nick) : nick[i] \in NickRestChars

\* Variant: only the first control character is removed.
strip_irc_controls_first(text) ==
    LET at == {i \in 1..Len(text) : text[i] \in ControlChars}
    IN IF at = {} THEN text
       ELSE SubSeq(text, 1, Min(at) - 1) \o SubSeq(text, Min(at) + 1, Len(text))
strip_irc_controls(text) == SelectSeq(text, LAMBDA c : c \notin ControlChars)

sanitize_location(location) ==
    LET l1 == strip(strip_irc_controls(location))
        l2 == strip(SelectSeq(l1, LAMBDA c : c \in SafeTextChars))
    IN IF l1 = <<>> \/ Len(l1) > MAX_LOCATION_LEN THEN None
       ELSE IF l2 = <<>> THEN None ELSE l2

sanitize_term(term) ==
    LET t == strip(strip_irc_controls(term))
    IN IF t = <<>> \/ Len(t) > MAX_TERM_LEN THEN None ELSE t

sanitize_nick(nick) ==
    LET n == strip(strip_irc_controls(nick))
    IN IF n = <<>> \/ Len(n) > MAX_NICK_LEN THEN None
       ELSE IF ~NICK_RE(n) THEN None ELSE n

sanitize_quote(text) ==
    LET t == strip(strip_irc_controls(text))
    IN IF t = <<>> \/ Len(t) > MAX_QUOTE_LEN THEN None ELSE t

sanitize_generic(text) ==
    LET t == strip(strip_irc_controls(text))
    IN IF t = <<>> \/ Len(t) > MAX_GENERIC_LEN THEN None ELSE t

\* Variant: CR and LF are left in the text.
sanitize_irc_output_keep(text) == text
sanitize_irc_output(text) == SelectSeq(text, LAMBDA c : c \notin {CR, LF})


(***************************************************************************)
(* Configuration (IRCBot.__init__).                                        *)
(***************************************************************************)
nickname == <<"l", "e", "0">>
channels == << <<"#", "d", "0", "m", "3", "r">>, <<"#", "b", "l", "c", "k", "n", "d">> >>
command_prefix == <<"%">>
rate_limit_seconds == 2
RecvSize == 2048
SeenMessageLen == 100

(***************************************************************************)
(* Protocol literals.                                                      *)
(***************************************************************************)
S_PING == <<"P", "I", "N", "G">>
S_PONG == <<"P", "O", "N", "G">>
S_376 == <<" ", "3", "7", "6", " ">>
S_422 == <<" ", "4", "2", "2", " ">>
S_PRIVMSG_IN == <<" ", "P", "R", "I", "V", "M", "S", "G", " ">>
S_PASS == <<"P", "A", "S", "S", " ">>
S_NICK == <<"N", "I", "C", "K", " ">>
S_USER == <<"U", "S", "E", "R", " ">>
S_USER_MID == <<" ", "0", " ", "*", " ", ":">>
S_JOIN == <<"J", "O", "I", "N", " ">>
S_PRIVMSG == <<"P", "R", "I", "V", "M", "S", "G", " ">>
S_QUIT == <<"Q", "U", "I", "T", " ", ":", "l", "e", "0", " ", "s", "h", "u", "t",
            "t", "i", "n", "g", " ", "d", "o", "w", "n">>

(***************************************************************************)
(* Outbound frames: what one self.irc.send() writes.                       *)
(***************************************************************************)
\* Variant: the frame is written as given.
send_raw_unsanitized(message) == encode(message \o CRLF)
send_raw(message) == encode(sanitize_irc_output(message) \o CRLF)

\* Variant: the reply goes to the bot's own nickname whatever the target.
send_message_home(target, message) ==
    send_raw(S_PRIVMSG \o <<"l", "e", "0">> \o <<" ", ":">> \o sanitize_irc_output(message))
send_message(target, message) ==
    send_raw(S_PRIVMSG \o target \o <<" ", ":">> \o sanitize_irc_output(message))

join_channel(channel) == send_raw(S_JOIN \o channel)

\* Variant: every PING of the line becomes PONG.
pong_all(line) == [i \in 1..Len(line) |-> IF line[i] = "I" THEN "O" ELSE line[i]]
\* line.replace("PING", "PONG", 1)
pong(line) == replace1(line, S_PING, S_PONG)

\* Variant: 376 or 422 as a token between spaces or line ends.
marker_token(line) ==
    \/ contains(<<" ">> \o line \o <<" ">>, S_376)
    \/ contains(<<" ">> \o line \o <<" ">>, S_422)
\* " 376 " in line or " 422 " in line
handshake_complete(line) == contains(line, S_376) \/ contains(line, S_422)

(***************************************************************************)
(* re.match(r':(.+?)!.+? PRIVMSG (.+?) :(.+)', line): the lazy groups take *)
(* the first "!", the first " PRIVMSG " and the first " :" that leave a    *)
(* match; "." matches anything but LF; the last group runs to the first LF *)
(* or to the end of the line.                                              *)
(***************************************************************************)
PRIVMSG_RE(line) ==
    LET lfs == {i \in 1..Len(line) : line[i] = LF}
        stop == IF lfs = {} THEN Len(line) + 1 ELSE Min(lfs)
        bangs == {i \in 3..Len(line) : line[i] = "!"}
        verbs == Occurrences(line, S_PRIVMSG_IN)
        colons == Occurrences(line, <<" ", ":">>)
        triples == {t \in bangs \X verbs \X colons :
                      /\ t[2] >= t[1] + 2
                      /\ t[3] >= t[2] + 10
                      /\ t[3] + 2 < stop}
        i == Min({t[1] : t \in triples})
        j == Min({t[2] : t \in {u \in triples : u[1] = i}})
        k == Min({t[3] : t \in {u \in triples : u[1] = i /\ u[2] = j}})
    IN IF line = <<>> \/ line[1] # ":" \/ triples = {}
       THEN [ok |-> FALSE, nick |-> <<>>, channel |-> <<>>, message |-> <<>>]
       ELSE [ok |-> TRUE,
             nick |-> SubSeq(line, 2, i - 1),
             channel |-> SubSeq(line, j + 9, k - 1),
             message |-> SubSeq(line, k + 2, stop - 1)]

(***************************************************************************)
(* Rate limiting and the seen / quote stores.                              *)
(***************************************************************************)
\* Variant: the timestamp is recorded on rejection too.
_check_rate_limit_recording(nick, now, ulc) ==
    LET key == lower(nick)
        last == IF key \in DOMAIN ulc THEN ulc[key] ELSE 0
    IN [ok |-> ~(now - last < rate_limit_seconds * 10),
        ulc |-> (key :> now) @@ ulc]
_check_rate_limit(nick, now, ulc) ==
    LET key == lower(nick)
        last == IF key \in DOMAIN ulc THEN ulc[key] ELSE 0
    IN IF now - last < rate_limit_seconds * 10
       THEN [ok |-> FALSE, ulc |-> ulc]
       ELSE [ok |-> TRUE, ulc |-> (key :> now) @@ ulc]

\* Variant: the whole text is stored.
track_seen_whole(seen, nick, channel, message, now) ==
    (lower(nick) :> [nick |-> nick, channel |-> channel, message |-> message,
                     time |-> now]) @@ seen
track_seen(seen, nick, channel, message, now) ==
    (lower(nick) :> [nick |-> nick,
                     channel |-> channel,
                     message |-> take(message, SeenMessageLen),
                     time |-> now]) @@ seen


(***************************************************************************)
(* Theme helpers and command handlers.  A handler's fixed text is one      *)
(* unit; what it takes from the user or from the stores is kept character  *)
(* by character.  o is the outcome of what the handler does not control    *)
(* (the HTTP service, random.choice).                                      *)
(***************************************************************************)
_header(text) == <<"<header>">> \o text \o <<"</header>">>
_error(text) == <<"<error>">> \o text \o <<"</error>">>
_success(text) == <<"<success>">> \o text \o <<"</success>">>
_arrow_line(text) == <<"<arrow>">> \o text

Result(text) == [text |-> text, took |-> 0, raises |-> FALSE]
Slow(text, took) == [text |-> text, took |-> took, raises |-> FALSE]
Raises == [text |-> <<>>, took |-> 0, raises |-> TRUE]

get_weather(location, o) ==
    CASE o = "ok" ->
           Result(joinLines(<<_header(<<"Weather ", "<city>">>),
                              _arrow_line(<<"<condition>">>),
                              _arrow_line(<<"<humidity>">>),
                              _arrow_line(<<"<pressure>">>)>>))
      [] o = "notfound" ->
           Result(_error(<<"Could not find location '">> \o location \o <<"'">>))
      [] o = "timeout" ->
           Slow(_error(<<"Request timed out - weather service may be unavailable">>), 50)
      [] OTHER -> Raises

\* Returns a list: one send_message per item.
get_forecast(location, o) ==
    CASE o = "ok" ->
           [list |-> <<_header(<<"Forecast ", "<city>">>),
                       _arrow_line(<<"<day1>">>),
                       _arrow_line(<<"<day2>">>),
                       _arrow_line(<<"<day3>">>)>>,
            took |-> 0, raises |-> FALSE]
      [] o = "notfound" ->
           [list |-> <<_error(<<"Could not find location '">> \o location \o <<"'">>)>>,
            took |-> 0, raises |-> FALSE]
      [] o = "timeout" ->
           [list |-> <<_error(<<"Request timed out - weather service may be unavailable">>)>>,
            took |-> 50, raises |-> FALSE]
      [] OTHER -> [list |-> <<>>, took |-> 0, raises |-> TRUE]

get_time(location, o) ==
    IF location # None /\ o # "ok"
    THEN Result(_error(<<"Could not find location '">> \o location \o <<"'">>))
    ELSE Result(_header(<<"Time">>) \o <<"<now>">>)

get_urban_definition(term, o) ==
    CASE o = "ok" ->
           Result(joinLines(<<_header(<<"Urban Dictionary">>),
                              _arrow_line(<<"<word>", "<meaning>">>)>>))
      [] o = "multiline" ->
           Result(joinLines(<<_header(<<"Urban Dictionary">>),
                              _arrow_line(<<"<word>", "<meaning>", CR>>),
                              <<"<meaning, second line>">>>>))
      [] OTHER -> Slow(_error(<<"Error looking up definition">>), 100)

coin_flip(o) ==
    Result(joinLines(<<_header(<<"Coin Flip">>), <<"<art1>">>, <<"<art2>">>,
                       <<"<art3>", o>>, <<"<art4>">>, _arrow_line(<<o>>)>>))

\* ^\d{0,3}d?\d{1,4}$
DICE_RE(s) ==
    \E a \in 0..3, b \in 0..1, c \in 1..4 :
       /\ Len(s) = a + b + c
       /\ \A i \in 1..a : s[i] \in Digits
       /\ b = 1 => s[a + 1] = "d"
       /\ \A i \in (a + b + 1)..Len(s) : s[i] \in Digits

roll_dice(dice_str) == Result(_header(<<"Dice Roll">>) \o <<"<rolls>">>)

eightball(question) ==
    IF strip(question) = <<>> THEN Result(_error(<<"Ask me a question!">>))
    ELSE Result(joinLines(<<_header(<<"Magic 8-Ball">>), <<"<ball1>">>,
                            <<"<ball2>">>, <<"<ball3>">>,
                            _arrow_line(<<"<response>">>)>>))

rps(choice) ==
    LET c == strip(lower(choice))
    IN IF c \in {<<"r">>, <<"p">>, <<"s">>, <<"r","o","c","k">>,
                 <<"p","a","p","e","r">>,
                 <<"s","c","i","s","s","o","r","s">>}
       THEN Result(_header(<<"Rock Paper Scissors">>) \o <<"<result>">>)
       ELSE Result(_error(<<"Choose: rock, paper, or scissors (r/p/s)">>))

get_fact == Result(joinLines(<<_header(<<"Random Fact">>), _arrow_line(<<"<fact>">>)>>))

\* Variant: the lookup key is the nick as given.
get_seen_exact(seen, nick, now) ==
    IF nick \in DOMAIN seen
    THEN Result(joinLines(<<
                _header(<<"User Seen">>),
                _arrow_line(seen[nick].nick
                            \o <<" ", ToString((now - seen[nick].time) \div 10),
                                 "s ago in ">>
                            \o seen[nick].channel),
                _arrow_line(<<"Message: ">> \o seen[nick].message)>>))
    ELSE Result(_error(<<"Haven't seen ">> \o nick \o <<" yet">>))
get_seen(seen, nick, now) ==
    IF lower(nick) \in DOMAIN seen
    THEN LET user == seen[lower(nick)]
         IN Result(joinLines(<<
                _header(<<"User Seen">>),
                _arrow_line(user.nick \o <<" ", ToString((now - user.time) \div 10),
                                          "s ago in ">>
                            \o user.channel),
                _arrow_line(<<"Message: ">> \o user.message)>>))
    ELSE Result(_error(<<"Haven't seen ">> \o nick \o <<" yet">>))

\* Variant: the quote is put in front.
add_quote_first(qs, quote, added_by, now) ==
    <<[quote |-> quote, added_by |-> added_by, timestamp |-> now]>> \o qs
add_quote(qs, quote, added_by, now) ==
    Append(qs, [quote |-> quote, added_by |-> added_by, timestamp |-> now])
add_quote_reply(qs, added_by) ==
    _success(<<"Quote #", ToString(Len(qs)), " added by ">> \o added_by)

\* Variant: the reply does not say who added the quote.
get_random_quote_unsigned(qs, pick) ==
    IF qs = <<>>
    THEN Result(_error(<<"No quotes stored yet. Use %addquote to add one.">>))
    ELSE Result(joinLines(<<_header(<<"Quote #", ToString(pick)>>),
                            _arrow_line(qs[pick].quote),
                            _arrow_line(<<"added by ">>)>>))
\* random.choice(self.quotes) picks entry `pick`; quotes.index() is the
\* first position holding an equal entry.
get_random_quote(qs, pick) ==
    IF qs = <<>>
    THEN Result(_error(<<"No quotes stored yet. Use %addquote to add one.">>))
    ELSE LET quote_data == qs[pick]
             quote_num == Min({i \in 1..Len(qs) : qs[i] = quote_data})
         IN Result(joinLines(<<
                _header(<<"Quote #", ToString(quote_num)>>),
                _arrow_line(quote_data.quote),
                _arrow_line(<<"added by ">> \o quote_data.added_by)>>))

get_uptime == Result(_header(<<"Bot Uptime">>) \o <<"<uptime>">>)
do_ping == Result(_header(<<"Pong">>) \o <<"PONG!", "<time>">>)

hash_text(text) ==
    Result(joinLines(<<_header(<<"Cryptographic Hash">>),
                       _arrow_line(<<"MD5: ", "<md5>">>),
                       _arrow_line(<<"SHA1: ", "<sha1>">>),
                       _arrow_line(<<"SHA256: ", "<sha256>">>)>>))

do_base64(mode, text) ==
    IF mode \in {<<"e">>, <<"e","n","c">>, <<"e","n","c","o","d","e">>}
    THEN Result(joinLines(<<_header(<<"Base64 Encode">>), _arrow_line(<<"<base64>">>)>>))
    ELSE IF mode \in {<<"d">>, <<"d","e","c">>, <<"d","e","c","o","d","e">>}
    THEN Result(joinLines(<<_header(<<"Base64 Decode">>), _arrow_line(<<"<decoded>">>)>>))
    ELSE Result(_error(<<"Usage: %base64 <encode|decode> <text>">>))

Reverse(s) == [i \in 1..Len(s) |-> s[Len(s) + 1 - i]]
reverse_text(text) ==
    Result(joinLines(<<_header(<<"Reverse Text">>), _arrow_line(Reverse(text))>>))

mock_text(text) ==
    Result(joinLines(<<_header(<<"Mock Text">>), _arrow_line(<<"<mocked>">>)>>))

CalcChars == Digits \cup Whitespace \cup {"+", "-", "*", "/", "(", ")", ".", ",", "%", "^"}
safe_calc(expr) ==
    IF expr = <<>> \/ \E i \in 1..Len(expr) : expr[i] \notin CalcChars
    THEN Result(_error(<<"Invalid expression. Only numbers and +-*/()^. allowed">>))
    ELSE Result(_header(<<"Calculator">>) \o expr \o <<" = ", "<value>">>)

help_lines ==
    <<_header(<<"le0 Bot Commands Help Menu">>),
      <<"[Weather]">>, <<"[Info]">>, <<"[Fun]">>, <<"[Fun2]">>, <<"[Social]">>,
      <<"[Utility]">>, <<"[Tools]">>, <<"[Text]">>,
      <<"<footer>", "Type ">> \o command_prefix \o <<"help anytime">>>>


(***************************************************************************)
(* Command names (without the prefix).                                     *)
(***************************************************************************)
N_weather == <<"w", "e", "a", "t", "h", "e", "r">>
N_w == <<"w">>
N_forecast == <<"f", "o", "r", "e", "c", "a", "s", "t">>
N_f == <<"f">>
N_urban == <<"u", "r", "b", "a", "n">>
N_ud == <<"u", "d">>
N_time == <<"t", "i", "m", "e">>
N_coin == <<"c", "o", "i", "n">>
N_flip == <<"f", "l", "i", "p">>
N_roll == <<"r", "o", "l", "l">>
N_dice == <<"d", "i", "c", "e">>
N_8ball == <<"8", "b", "a", "l", "l">>
N_8 == <<"8">>
N_rps == <<"r", "p", "s">>
N_fact == <<"f", "a", "c", "t">>
N_seen == <<"s", "e", "e", "n">>
N_addquote == <<"a", "d", "d", "q", "u", "o", "t", "e">>
N_quote == <<"q", "u", "o", "t", "e">>
N_uptime == <<"u", "p", "t", "i", "m", "e">>
N_ping == <<"p", "i", "n", "g">>
N_calc == <<"c", "a", "l", "c">>
N_hash == <<"h", "a", "s", "h">>
N_base64 == <<"b", "a", "s", "e", "6", "4">>
N_b64 == <<"b", "6", "4">>
N_reverse == <<"r", "e", "v", "e", "r", "s", "e">>
N_mock == <<"m", "o", "c", "k">>
N_help == <<"h", "e", "l", "p">>

(***************************************************************************)
(* IRCBot.handle_command.  The result says what the call does: the new     *)
(* rate-limit map and quote list, the texts it passes to send_message in   *)
(* order, the time.sleep after each of them, the time the handler took,    *)
(* and whether an exception leaves the call.                               *)
(***************************************************************************)
\* Variant: the usage text leaves the prefix out.
Usage_bare(name, args) == _error(<<"Usage: ">> \o name \o <<" ", args>>)
Usage(name, args) == _error(<<"Usage: ">> \o command_prefix \o name \o <<" ", args>>)

Outcome(verdict, ulc, qs, msgs, delay, took, raises) ==
    [verdict |-> verdict, ulc |-> ulc, quotes |-> qs, msgs |-> msgs,
     delay |-> delay, took |-> took, raises |-> raises,
     \* the lines of the reply the handler returned
     reply |-> msgs]

\* for line in result.split('\n'): self.send_message(channel, line); time.sleep(d)
Lines(ulc, qs, r, delay) ==
    IF r.raises THEN Outcome("raised", ulc, qs, <<>>, 0, r.took, TRUE)
    ELSE Outcome("handled", ulc, qs, split(r.text, <<LF>>), delay, r.took, FALSE)
\* self.send_message(channel, result)
One(ulc, qs, r) ==
    IF r.raises THEN Outcome("raised", ulc, qs, <<>>, 0, r.took, TRUE)
    ELSE [Outcome("handled", ulc, qs, <<r.text>>, 0, r.took, FALSE)
             EXCEPT !.reply = split(r.text, <<LF>>)]
UsageError(ulc, qs, name, args) ==
    Outcome("usage", ulc, qs, <<Usage(name, args)>>, 0, 0, FALSE)
\* Variant: the rejected text is stored as a quote.
Invalid_storing(ulc, qs, text) ==
    Outcome("invalid", ulc, Append(qs, text), <<_error(<<text>>)>>, 0, 0, FALSE)
Invalid(ulc, qs, text) ==
    Outcome("invalid", ulc, qs, <<_error(<<text>>)>>, 0, 0, FALSE)

\* Variant: a name that matches nothing is answered.
Unknown_replying(ulc, qs) ==
    Outcome("unknown", ulc, qs, <<_error(<<"Unknown command">>)>>, 0, 0, FALSE)
\* The if/elif chain has no else: a name that matches nothing does nothing.
Unknown(ulc, qs) == Outcome("unknown", ulc, qs, <<>>, 0, 0, FALSE)

dispatch(nick, parts, now, ulc, qs, seen, o, pick) ==
    LET command == lower(parts[1])
        is(name) == command = command_prefix \o name
        n == Len(parts)
        rest == joinFrom(parts, 2)
    IN
    IF is(N_weather) \/ is(N_w) THEN
        IF n < 2 THEN UsageError(ulc, qs, N_weather, "<location>")
        ELSE IF sanitize_location(rest) = None THEN Invalid(ulc, qs, "Invalid location")
        ELSE Lines(ulc, qs, get_weather(sanitize_location(rest), o), 3)
    ELSE IF is(N_forecast) \/ is(N_f) THEN
        IF n < 2 THEN UsageError(ulc, qs, N_forecast, "<location>")
        ELSE IF sanitize_location(rest) = None THEN Invalid(ulc, qs, "Invalid location")
        ELSE LET r == get_forecast(sanitize_location(rest), o)
             IN IF r.raises THEN Outcome("raised", ulc, qs, <<>>, 0, r.took, TRUE)
                ELSE Outcome("handled", ulc, qs, r.list, 5, r.took, FALSE)
    ELSE IF is(N_urban) \/ is(N_ud) THEN
        IF n < 2 THEN UsageError(ulc, qs, N_urban, "<term>")
        ELSE IF sanitize_term(rest) = None THEN Invalid(ulc, qs, "Invalid search term")
        ELSE Lines(ulc, qs, get_urban_definition(sanitize_term(rest), o), 3)
    ELSE IF is(N_time) THEN
        One(ulc, qs, get_time(IF n > 1 THEN sanitize_location(rest) ELSE None, o))
    ELSE IF is(N_coin) \/ is(N_flip) THEN Lines(ulc, qs, coin_flip(o), 2)
    ELSE IF is(N_roll) \/ is(N_dice) THEN
        LET dice_str == IF n > 1 THEN parts[2] ELSE <<"1", "d", "6">>
        IN IF ~DICE_RE(lower(dice_str))
           THEN Invalid(ulc, qs, "Invalid dice format (use: 2d6, 1d20)")
           ELSE One(ulc, qs, roll_dice(dice_str))
    ELSE IF is(N_8ball) \/ is(N_8) THEN Lines(ulc, qs, eightball(rest), 2)
    ELSE IF is(N_rps) THEN
        IF n < 2 THEN UsageError(ulc, qs, N_rps, "<rock|paper|scissors>")
        ELSE One(ulc, qs, rps(parts[2]))
    ELSE IF is(N_fact) THEN Lines(ulc, qs, get_fact, 3)
    ELSE IF is(N_seen) THEN
        IF n < 2 THEN UsageError(ulc, qs, N_seen, "<nick>")
        ELSE IF sanitize_nick(parts[2]) = None THEN Invalid(ulc, qs, "Invalid nickname")
        ELSE Lines(ulc, qs, get_seen(seen, sanitize_nick(parts[2]), now), 2)
    ELSE IF is(N_addquote) THEN
        IF n < 2 THEN UsageError(ulc, qs, N_addquote, "<quote>")
        ELSE IF sanitize_quote(rest) = None
        THEN Invalid(ulc, qs, "Invalid quote (too long or empty)")
        ELSE LET qs2 == add_quote(qs, sanitize_quote(rest), nick, now)
             IN One(ulc, qs2, Result(add_quote_reply(qs2, nick)))
    ELSE IF is(N_quote) THEN Lines(ulc, qs, get_random_quote(qs, pick), 2)
    ELSE IF is(N_uptime) THEN One(ulc, qs, get_uptime)
    ELSE IF is(N_ping) THEN One(ulc, qs, do_ping)
    ELSE IF is(N_calc) THEN
        IF n < 2 THEN UsageError(ulc, qs, N_calc, "<expression>")
        ELSE One(ulc, qs, safe_calc(rest))
    ELSE IF is(N_hash) THEN
        IF n < 2 THEN UsageError(ulc, qs, N_hash, "<text>")
        ELSE IF sanitize_generic(rest) = None THEN Invalid(ulc, qs, "Invalid input")
        ELSE Lines(ulc, qs, hash_text(sanitize_generic(rest)), 2)
    ELSE IF is(N_base64) \/ is(N_b64) THEN
        IF n < 3 THEN UsageError(ulc, qs, N_base64, "<encode|decode> <text>")
        ELSE IF sanitize_generic(joinFrom(parts, 3)) = None
        THEN Invalid(ulc, qs, "Invalid input")
        ELSE Lines(ulc, qs, do_base64(lower(parts[2]),
                                      sanitize_generic(joinFrom(parts, 3))), 2)
    ELSE IF is(N_reverse) THEN
        IF n < 2 THEN UsageError(ulc, qs, N_reverse, "<text>")
        ELSE IF sanitize_generic(rest) = None THEN Invalid(ulc, qs, "Invalid input")
        ELSE Lines(ulc, qs, reverse_text(sanitize_generic(rest)), 2)
    ELSE IF is(N_mock) THEN
        IF n < 2 THEN UsageError(ulc, qs, N_mock, "<text>")
        ELSE IF sanitize_generic(rest) = None THEN Invalid(ulc, qs, "Invalid input")
        ELSE One(ulc, qs, mock_text(sanitize_generic(rest)))
    ELSE IF is(N_help) THEN Outcome("handled", ulc, qs, help_lines, 3, 0, FALSE)
    ELSE Unknown(ulc, qs)

\* Variant: the time of the command is kept only if the command was carried out.
handle_command_lookup_first(nick, message, now, ulc, qs, seen, o, pick) ==
    LET rl == _check_rate_limit(nick, now, ulc)
        parts == words(message)
        r == dispatch(nick, parts, now, rl.ulc, qs, seen, o, pick)
    IN IF ~rl.ok THEN Outcome("rate_limited", rl.ulc, qs, <<>>, 0, 0, FALSE)
       ELSE IF parts = <<>> THEN Outcome("empty", rl.ulc, qs, <<>>, 0, 0, FALSE)
       ELSE IF r.verdict \in {"unknown", "usage", "invalid"}
       THEN [r EXCEPT !.ulc = ulc]
       ELSE r
handle_command(nick, message, now, ulc, qs, seen, o, pick) ==
    LET rl == _check_rate_limit(nick, now, ulc)
        parts == words(message)
    IN IF ~rl.ok THEN Outcome("rate_limited", rl.ulc, qs, <<>>, 0, 0, FALSE)
       ELSE IF parts = <<>> THEN Outcome("empty", rl.ulc, qs, <<>>, 0, 0, FALSE)
       ELSE dispatch(nick, parts, now, rl.ulc, qs, seen, o, pick)


(***************************************************************************)
(* What the server sends.  A scenario is a server password (or None) and   *)
(* the byte stream of the connection.                                      *)
(***************************************************************************)
RECURSIVE Wire(_)
Wire(lines) == IF lines = <<>> THEN <<>> ELSE lines[1] \o CRLF \o Wire(Tail(lines))
Chat(nick, target, text) ==
    <<":">> \o nick \o <<"!", "u", "@", "h">> \o S_PRIVMSG_IN \o target
    \o <<" ", ":">> \o text
Cmd(name) == command_prefix \o name
Cmd1(name, arg) == command_prefix \o name \o <<" ">> \o arg

alice == <<"a">>
ALICE == <<"A">>
bob == <<"b", "o", "b">>
carol == <<"c">>
chan == <<"#", "c">>
hi == <<"h", "i">>
M376 == <<":", "s", " ", "3", "7", "6", " ", "x">>
M422 == <<":", "s", " ", "4", "2", "2", " ", "x">>
M376End == <<":", "s", " ", "3", "7", "6">>
M376Start == <<"3", "7", "6", " ", "x">>
PingA == S_PING \o <<" ", ":", "a">>
PingPing == S_PING \o <<" ">> \o S_PING
PingCR == S_PING \o <<" ", "a", CR, "b">>
PingLF == S_PING \o <<" ", "a", LF, "b">>
PingMarker == S_PING \o <<" ", "3", "7", "6", " ", "x">>
LongText == [i \in 1..LongLen |-> "x"]

\* Where a read may end.  LineEnds: after the CRLF of a line.  FineEnds: also
\* after a CR, after an LF, and one character into a line.  LeadEnds: after
\* the CRLF of a line and after the lead byte of a two-byte character.  The
\* end of what the server has sent is always one.
LineEnds(s) == {e \in 2..Len(s) : s[e] = LF /\ s[e - 1] = CR}
FineEnds(s) == {e \in 1..Len(s) : s[e] \in {CR, LF} \/ e = 1 \/ s[e - 1] = LF}
LeadEnds(s) == LineEnds(s) \cup {e \in 1..Len(s) : s[e] = LeadByte}

\* time.time() when the process starts, in tenths of a second.
Epoch == 0
Later == 50

Scenario(pw, lines, tail, cuts, clocks) ==
    LET s == Wire(lines) \o tail
    IN [password |-> pw, stream |-> s,
        ends |-> (CASE cuts = "fine" -> FineEnds(s)
                    [] cuts = "lead" -> LeadEnds(s)
                    [] OTHER -> LineEnds(s)) \cup {Len(s)},
        clocks |-> clocks]

Scenarios ==
    <<Scenario(None, <<PingA, M376, PingA, Chat(alice, chan, Cmd(N_ping))>>,
               <<>>, "fine", {Later}),
      Scenario(<<"p", LF, "w">>,
               <<M376End, M376Start, PingPing, M422, M376, PingCR, PingLF>>,
               <<>>, "line", {Later}),
      Scenario(None, <<M376, Chat(alice, chan, Cmd(N_help)),
                       Chat(alice, chan, Cmd(N_ping))>>,
               <<>>, "line", {Later}),
      Scenario(None, <<M422, Chat(alice, chan, Cmd(N_ping)),
                       Chat(ALICE, chan, Cmd(N_ping)),
                       Chat(bob, chan, Cmd(<<"z", "z">>))>>,
               <<>>, "line", {Epoch, Later}),
      Scenario(None, <<M376, Chat(nickname, chan, Cmd(N_ping)),
                       Chat(alice, chan, hi), Chat(nickname, chan, hi)>>,
               <<"x">>, "line", {Later}),
      Scenario(None, <<M376, Chat(alice, chan, LongText),
                       Chat(bob, <<"#", CR, "c">>, Cmd1(N_seen, ALICE))>>,
               <<>>, "line", {Later}),
      Scenario(None, <<M376, Chat(alice, chan, Cmd1(N_addquote, hi)),
                       Chat(alice, chan, Cmd(N_quote)),
                       Chat(bob, chan, Cmd(N_quote))>>,
               <<>>, "line", {Later}),
      Scenario(None, <<M376, Chat(alice, chan, Cmd(N_seen)),
                       Chat(bob, chan, Cmd1(N_seen, <<"1", "x">>)),
                       Chat(carol, chan, Cmd1(N_addquote, <<"^B">>))>>,
               <<>>, "line", {Later}),
      Scenario(None, <<Chat(alice, chan, Cmd(N_ping)), PingMarker, M376,
                       Chat(alice, chan, <<LeadByte, ContByte>>),
                       <<"j", "u", "n", "k">>>>,
               <<>>, "lead", {Later})>>

\* One command per connection: every command name and alias, without its
\* argument, with an argument its Sanitizer transform rejects, and with one
\* it accepts.
X == <<"x">>
Bad == <<"$">>
Ctl == <<"^B">>
RouterMessages ==
    <<Cmd(N_weather), Cmd(N_w), Cmd1(N_weather, Bad), Cmd1(N_w, X),
      Cmd(N_forecast), Cmd(N_f), Cmd1(N_f, Bad), Cmd1(N_forecast, X),
      Cmd(N_urban), Cmd(N_ud), Cmd1(N_ud, Bad), Cmd1(N_urban, X),
      Cmd(N_time), Cmd1(N_time, Bad), Cmd1(N_time, X),
      Cmd(N_coin), Cmd(N_flip),
      Cmd(N_roll), Cmd1(N_dice, X), Cmd1(N_roll, <<"2", "d", "6">>),
      Cmd(N_8ball), Cmd1(N_8, X),
      Cmd(N_rps), Cmd1(N_rps, <<"r">>), Cmd1(N_rps, X),
      Cmd(N_fact),
      Cmd(N_seen), Cmd1(N_seen, <<"1", "x">>), Cmd1(N_seen, X),
      Cmd(N_addquote), Cmd1(N_addquote, Ctl), Cmd1(N_addquote, X),
      Cmd(N_quote), Cmd(N_uptime), Cmd(N_ping),
      Cmd(N_calc), Cmd1(N_calc, X), Cmd1(N_calc, <<"1">>),
      Cmd(N_hash), Cmd1(N_hash, Ctl), Cmd1(N_hash, X),
      Cmd(N_base64), Cmd1(N_b64, <<"e">>), Cmd1(N_base64, <<"e", " ", "^B">>),
      Cmd1(N_b64, <<"e", " ", "x">>), Cmd1(N_b64, <<"z", " ", "x">>),
      Cmd(N_reverse), Cmd1(N_reverse, Ctl), Cmd1(N_reverse, <<"x", "y">>),
      Cmd(N_mock), Cmd1(N_mock, Ctl), Cmd1(N_mock, X),
      Cmd(N_help), Cmd(<<"H", "e", "L", "p">>), Cmd1(N_help, X),
      Cmd(<<"z", "z">>), Cmd(<<>>), Cmd(<<" ", "p", "i", "n", "g">>),
      Cmd(<<"p", "i", "n", "g", "s">>)>>
RouterScenarios ==
    [i \in 1..Len(RouterMessages) |->
        Scenario(None, <<M376, Chat(alice, chan, RouterMessages[i])>>, <<>>,
                 "line", {Later})]
\* A conversation about the quote store: an addquote, a lookup by its
\* author straight after it, a lookup by somebody else, a second addquote and
\* a lookup over both quotes.
dave == <<"d">>
HelloWorld == <<"H", "e", "l", "l", "o", " ", "w", "o", "r", "l", "d">>
QuoteScenarios ==
    <<Scenario(None, <<M376, Chat(carol, chan, Cmd1(N_addquote, HelloWorld)),
                       Chat(carol, chan, Cmd(N_quote)),
                       Chat(bob, chan, Cmd(N_quote)),
                       Chat(alice, chan, Cmd1(N_addquote, X)),
                       Chat(dave, chan, Cmd(N_quote))>>,
               <<>>, "line", {Later})>>
\* The bot's own nickname in another letter case, another spelling of a
\* sender seen before, a sender who asks about itself and one who asks about
\* a name never seen.
LE0 == <<"L", "E", "0">>
IdentityScenarios ==
    <<Scenario(None, <<M376, Chat(LE0, chan, Cmd(N_ping)),
                       Chat(alice, chan, hi),
                       Chat(ALICE, chan, Cmd1(N_seen, alice)),
                       Chat(bob, chan, Cmd1(N_seen, <<"B", "o", "B">>)),
                       Chat(carol, chan, Cmd1(N_seen, X))>>,
               <<>>, "line", {Later})>>
\* Lines that are not chat frames: a server numeric, and a NOTICE whose text
\* quotes a chat frame.
Numeric332 == <<":", "s", " ", "3", "3", "2", " ", "x">>
NoticeQuoting ==
    <<":">> \o alice \o <<"!", "u", "@", "h", " ", "N", "O", "T", "I", "C", "E", " ">>
    \o chan \o <<" ", ":", "x">> \o S_PRIVMSG_IN \o chan \o <<" ", ":">> \o Cmd(N_ping)
NoticeScenarios ==
    <<Scenario(None, <<M376, Numeric332, NoticeQuoting>>, <<>>, "line", {Later})>>
\* A PING with two chat messages behind it and an unfinished line at the end.
FaultScenarios ==
    <<Scenario(None, <<M376, PingA, Chat(alice, chan, hi), Chat(bob, chan, hi)>>,
               <<"x">>, "line", {Later})>>
\* Four senders, each with a message that is not carried out (an unknown
\* name, the bare prefix, a missing argument, a rejected argument) and a valid
\* command straight after it.
CooldownScenarios ==
    <<Scenario(None, <<M376,
                       Chat(alice, chan, Cmd(<<"z", "z">>)), Chat(alice, chan, Cmd(N_ping)),
                       Chat(bob, chan, command_prefix), Chat(bob, chan, Cmd(N_ping)),
                       Chat(carol, chan, Cmd(N_seen)), Chat(carol, chan, Cmd(N_ping)),
                       Chat(dave, chan, Cmd1(N_seen, <<"1", "x">>)),
                       Chat(dave, chan, Cmd(N_ping))>>,
               <<>>, "line", {Later})>>
\* A private message to the bot, and a target with a CR in it.
PrivateScenarios ==
    <<Scenario(None, <<M376, Chat(alice, nickname, Cmd(N_ping)),
                       Chat(bob, <<"#", CR, "c">>, Cmd(N_ping))>>,
               <<>>, "line", {Later})>>
AllScenarios ==
    Scenarios \o RouterScenarios \o QuoteScenarios \o IdentityScenarios
    \o NoticeScenarios \o FaultScenarios \o CooldownScenarios
    \o PrivateScenarios

Stream == AllScenarios[scn].stream
password == AllScenarios[scn].password
ReadEnds == AllScenarios[scn].ends
StartClocks == AllScenarios[scn].clocks

\* How long recv may block before it returns, in tenths of a second.
Waits == {10, 20}

(***************************************************************************)
(* IRCBot.run: the session.                                                *)
(***************************************************************************)
Init ==
    /\ scn \in 1..Len(Scenarios)
    /\ clock \in StartClocks
    /\ pos = 0
    /\ eof = FALSE
    /\ phase = "Connecting"
    /\ pc = "connect"
    /\ buffer = <<>>
    /\ pending = <<>>
    /\ connected = FALSE
    /\ seen_users = <<>>
    /\ quotes = <<>>
    /\ user_last_cmd = <<>>
    /\ out = <<>>
    /\ log = <<>>
    /\ arrived = 0
    /\ faults = 0
    /\ ticks = 0
    /\ exit = "none"

stores == <<seen_users, quotes, user_last_cmd>>
input == <<scn, pos, eof>>

\* Variant: USER is sent before NICK.
registration_user_first ==
    (IF password # None THEN <<send_raw(S_PASS \o password)>> ELSE <<>>)
    \o <<send_raw(S_USER \o nickname \o S_USER_MID \o nickname),
         send_raw(S_NICK \o nickname)>>
\* connect(): k of the registration frames are sent before a send fails.
registration ==
    (IF password # None THEN <<send_raw(S_PASS \o password)>> ELSE <<>>)
    \o <<send_raw(S_NICK \o nickname),
         send_raw(S_USER \o nickname \o S_USER_MID \o nickname)>>

Connect(k) ==
    /\ phase = "Connecting"
    /\ k <= Len(registration)
    /\ k = Len(registration) \/ faults < MaxFaults
    /\ out' = out \o SubSeq(registration, 1, k)
    /\ IF k = Len(registration)
       THEN /\ phase' = "Handshaking"
            /\ pc' = "recv"
            /\ UNCHANGED <<faults, exit>>
       ELSE /\ phase' = "Closed"
            /\ pc' = "done"
            /\ faults' = faults + 1
            /\ exit' = "crash"
    /\ UNCHANGED <<input, clock, buffer, pending, connected, stores, log,
                   arrived, ticks>>

\* buffer += self.irc.recv(2048).decode(...); lines = buffer.split("\r\n");
\* buffer = lines.pop()
Recv(e) ==
    /\ phase \in {"Handshaking", "Ready"}
    /\ pc = "recv"
    /\ e > pos
    /\ e - pos <= RecvSize
    /\ LET lines == split(buffer \o decode(SubSeq(Stream, pos + 1, e)), CRLF)
       IN /\ buffer' = lines[Len(lines)]
          /\ pending' = SubSeq(lines, 1, Len(lines) - 1)
          /\ pc' = IF Len(lines) > 1 THEN "lines" ELSE "recv"
    /\ pos' = e
    /\ arrived' = clock
    /\ UNCHANGED <<scn, eof, clock, phase, connected, stores, out, log, faults,
                   ticks, exit>>

\* recv raises.
RecvFault ==
    /\ phase \in {"Handshaking", "Ready"}
    /\ pc = "recv"
    /\ faults < MaxFaults
    /\ faults' = faults + 1
    /\ pc' = "backoff"
    /\ UNCHANGED <<input, clock, phase, buffer, pending, connected, stores, out,
                   log, arrived, ticks, exit>>

\* The peer closes the connection after its last byte.
PeerClose ==
    /\ phase \in {"Handshaking", "Ready"}
    /\ pos = Len(Stream)
    /\ ~eof
    /\ eof' = TRUE
    /\ UNCHANGED <<scn, pos, clock, phase, pc, buffer, pending, connected,
                   stores, out, log, arrived, faults, ticks, exit>>

\* recv returns b"": nothing is appended, no line is complete, the loop
\* goes round.
RecvEOF ==
    /\ phase \in {"Handshaking", "Ready"}
    /\ pc = "recv"
    /\ eof
    /\ arrived' = clock
    /\ UNCHANGED <<input, clock, phase, pc, buffer, pending, connected, stores,
                   out, log, faults, ticks, exit>>

\* Time passes while recv blocks.  The clock is read only by what the
\* steady-state loop calls (_check_rate_limit, track_seen, add_quote,
\* get_seen), so the time spent waiting before that loop is part of the
\* clock value the process starts with; and once the last byte of the
\* stream has been read no line is processed any more, so the waiting after
\* it is left out.
Tick(w) ==
    /\ phase = "Ready"
    /\ pc = "recv"
    /\ ticks < MaxTicks
    /\ pos < Len(Stream)
    /\ ticks' = ticks + 1
    /\ clock' = clock + w
    /\ UNCHANGED <<input, phase, pc, buffer, pending, connected, stores, out,
                   log, arrived, faults, exit>>

\* time.sleep(1) / time.sleep(5) in the except clause; then the loop
\* condition is tested again.
Backoff ==
    /\ pc = "backoff"
    /\ pc' = "recv"
    /\ IF phase = "Handshaking"
       THEN /\ clock' = clock + 10
            /\ phase' = IF connected THEN "Ready" ELSE "Handshaking"
            /\ buffer' = IF connected THEN <<>> ELSE buffer
       ELSE /\ clock' = clock + 50
            /\ UNCHANGED <<phase, buffer>>
    /\ UNCHANGED <<input, pending, connected, stores, out, log, arrived,
                   faults, ticks, exit>>

Entry(line, verdict, want, sent, failed) ==
    [line |-> line, phase |-> phase, at |-> clock, arrived |-> arrived,
     verdict |-> verdict, first |-> Len(out) + 1, want |-> want, sent |-> sent,
     failed |-> failed, reply |-> want,
     \* what re.match gives on the line
     msg |-> PRIVMSG_RE(line)]

\* Variant: a chat message is answered during the handshake.
handshake_frames_answering(line) ==
    (IF startswith(line, S_PING) THEN <<send_raw(pong(line))>> ELSE <<>>)
    \o (IF PRIVMSG_RE(line).ok
        THEN <<send_message(PRIVMSG_RE(line).channel, <<"x">>)>> ELSE <<>>)
    \o (IF handshake_complete(line)
        THEN [i \in 1..Len(channels) |-> join_channel(channels[i])]
        ELSE <<>>)
\* One line of the handshake loop.
handshake_frames(line) ==
    (IF startswith(line, S_PING) THEN <<send_raw(pong(line))>> ELSE <<>>)
    \o (IF handshake_complete(line)
        THEN [i \in 1..Len(channels) |-> join_channel(channels[i])]
        ELSE <<>>)

\* Variant: connected = True is set after the JOINs have been sent.
HandshakeLine_flag_last ==
    /\ phase = "Handshaking"
    /\ pc = "lines"
    /\ LET line == Head(pending)
           frames == handshake_frames(line)
           isPing == startswith(line, S_PING)
           isMarker == handshake_complete(line)
       IN \E k \in 0..Len(frames) :
          LET failed == k < Len(frames)
              reached == isMarker /\ ~failed
          IN
          /\ failed => faults < MaxFaults
          /\ out' = out \o SubSeq(frames, 1, k)
          /\ faults' = IF failed THEN faults + 1 ELSE faults
          /\ connected' = reached
          /\ log' = Append(log, Entry(line,
                        IF isPing /\ isMarker THEN "pong+marker"
                        ELSE IF isPing THEN "pong"
                        ELSE IF isMarker THEN "marker" ELSE "ignored",
                        Len(frames), k, failed))
          /\ IF failed
             THEN /\ pending' = <<>>
                  /\ pc' = "backoff"
                  /\ UNCHANGED <<phase, buffer>>
             ELSE IF isMarker
             THEN /\ pending' = <<>>
                  /\ pc' = "recv"
                  /\ phase' = "Ready"
                  /\ buffer' = <<>>
             ELSE /\ pending' = Tail(pending)
                  /\ pc' = IF Tail(pending) = <<>> THEN "recv" ELSE "lines"
                  /\ UNCHANGED <<phase, buffer>>
    /\ UNCHANGED <<input, clock, stores, arrived, ticks, exit>>
\* Variant: the lines after the marker and the carry buffer are kept.
HandshakeLine_continue ==
    /\ phase = "Handshaking"
    /\ pc = "lines"
    /\ LET line == Head(pending)
           frames == handshake_frames(line)
           isPing == startswith(line, S_PING)
           isMarker == handshake_complete(line)
       IN \E k \in 0..Len(frames) :
          LET failed == k < Len(frames)
              \* connected = True is set once the PONG, if any, has been sent
              reached == isMarker /\ (~failed \/ ~isPing \/ k >= 1)
          IN
          /\ failed => faults < MaxFaults
          /\ out' = out \o SubSeq(frames, 1, k)
          /\ faults' = IF failed THEN faults + 1 ELSE faults
          /\ connected' = reached
          /\ log' = Append(log, Entry(line,
                        IF isPing /\ isMarker THEN "pong+marker"
                        ELSE IF isPing THEN "pong"
                        ELSE IF isMarker THEN "marker" ELSE "ignored",
                        Len(frames), k, failed))
          /\ IF failed
             THEN /\ pending' = <<>>
                  /\ pc' = "backoff"
                  /\ UNCHANGED <<phase, buffer>>
             ELSE IF isMarker
             THEN /\ pending' = Tail(pending)
                  /\ pc' = IF Tail(pending) = <<>> THEN "recv" ELSE "lines"
                  /\ phase' = "Ready"
                  /\ UNCHANGED buffer
             ELSE /\ pending' = Tail(pending)
                  /\ pc' = IF Tail(pending) = <<>> THEN "recv" ELSE "lines"
                  /\ UNCHANGED <<phase, buffer>>
    /\ UNCHANGED <<input, clock, stores, arrived, ticks, exit>>
HandshakeLine ==
    /\ phase = "Handshaking"
    /\ pc = "lines"
    /\ LET line == Head(pending)
           frames == handshake_frames(line)
           isPing == startswith(line, S_PING)
           isMarker == handshake_complete(line)
       IN \E k \in 0..Len(frames) :
          LET failed == k < Len(frames)
              \* connected = True is set once the PONG, if any, has been sent
              reached == isMarker /\ (~failed \/ ~isPing \/ k >= 1)
          IN
          /\ failed => faults < MaxFaults
          /\ out' = out \o SubSeq(frames, 1, k)
          /\ faults' = IF failed THEN faults + 1 ELSE faults
          /\ connected' = reached
          /\ log' = Append(log, Entry(line,
                        IF isPing /\ isMarker THEN "pong+marker"
                        ELSE IF isPing THEN "pong"
                        ELSE IF isMarker THEN "marker" ELSE "ignored",
                        Len(frames), k, failed))
          /\ IF failed
             THEN /\ pending' = <<>>
                  /\ pc' = "backoff"
                  /\ UNCHANGED <<phase, buffer>>
             ELSE IF isMarker
             THEN /\ pending' = <<>>
                  /\ pc' = "recv"
                  /\ phase' = "Ready"
                  /\ buffer' = <<>>
             ELSE /\ pending' = Tail(pending)
                  /\ pc' = IF Tail(pending) = <<>> THEN "recv" ELSE "lines"
                  /\ UNCHANGED <<phase, buffer>>
    /\ UNCHANGED <<input, clock, stores, arrived, ticks, exit>>


\* Variant: no sender is taken for the bot.
is_self_never(nick) == FALSE
\* if nick == self.nickname: continue
is_self(nick) == nick = nickname

\* if message.startswith(self.command_prefix)
is_command(message) == startswith(message, command_prefix)

Step(verdict, seen, ulc, qs, frames, delay, took, raises) ==
    [verdict |-> verdict, seen |-> seen, ulc |-> ulc, quotes |-> qs,
     frames |-> frames, delay |-> delay, took |-> took, raises |-> raises,
     reply |-> Len(frames)]

\* Variant: the texts are sent last first.
replies_reversed(channel, seen, c) ==
    [Step(c.verdict, seen, c.ulc, c.quotes,
          [i \in 1..Len(c.msgs) |->
              send_message(channel, c.msgs[Len(c.msgs) + 1 - i])],
          c.delay, c.took, c.raises)
       EXCEPT !.reply = Len(c.reply)]
\* self.send_message(channel, ...) for every text the command passes to it.
replies(channel, seen, c) ==
    [Step(c.verdict, seen, c.ulc, c.quotes,
          [i \in 1..Len(c.msgs) |-> send_message(channel, c.msgs[i])],
          c.delay, c.took, c.raises)
       EXCEPT !.reply = Len(c.reply)]

\* A chat message from somebody else: track_seen, then handle_command if the
\* text starts with the prefix.
chat_line(m, now, seen, ulc, qs, o, pick) ==
    IF ~is_command(m.message) THEN Step("chat", seen, ulc, qs, <<>>, 0, 0, FALSE)
    ELSE replies(m.channel, seen,
                 handle_command(m.nick, m.message, now, ulc, qs, seen, o, pick))

\* Variant: the command is handled without the message being recorded first.
message_line_untracked(m, now, seen, ulc, qs, o, pick) ==
    IF ~m.ok THEN Step("ignored", seen, ulc, qs, <<>>, 0, 0, FALSE)
    ELSE IF is_self(m.nick) THEN Step("self", seen, ulc, qs, <<>>, 0, 0, FALSE)
    ELSE chat_line(m, now, seen, ulc, qs, o, pick)
\* A line that is not a PING: the PRIVMSG pattern, then the own-nick test.
message_line(m, now, seen, ulc, qs, o, pick) ==
    IF ~m.ok THEN Step("ignored", seen, ulc, qs, <<>>, 0, 0, FALSE)
    ELSE IF is_self(m.nick) THEN Step("self", seen, ulc, qs, <<>>, 0, 0, FALSE)
    ELSE chat_line(m, now,
                   track_seen(seen, m.nick, m.channel, m.message, now),
                   ulc, qs, o, pick)

\* One line of the steady-state loop.
ready_line(line, now, seen, ulc, qs, o, pick) ==
    IF startswith(line, S_PING)
    THEN Step("pong", seen, ulc, qs, <<send_raw(pong(line))>>, 0, 0, FALSE)
    ELSE message_line(PRIVMSG_RE(line), now, seen, ulc, qs, o, pick)

\* The command a line carries, for choosing what its handler may meet.
CommandOf(line) ==
    LET m == PRIVMSG_RE(line)
        parts == words(m.message)
    IN IF m.ok /\ is_command(m.message) /\ parts # <<>>
       THEN lower(parts[1]) ELSE <<>>
HandlerOutcomes(line) ==
    LET c == CommandOf(line)
    IN IF c \in {Cmd(N_weather), Cmd(N_w), Cmd(N_forecast), Cmd(N_f)}
       THEN {"ok", "notfound", "timeout", "raise"}
       ELSE IF c \in {Cmd(N_urban), Cmd(N_ud)} THEN {"ok", "multiline", "error"}
       ELSE IF c = Cmd(N_time) THEN {"ok", "notfound"}
       ELSE IF c \in {Cmd(N_coin), Cmd(N_flip)} THEN {"HEADS", "TAILS"}
       ELSE {"ok"}
HandlerPicks(line) ==
    IF CommandOf(line) = Cmd(N_quote) /\ quotes # <<>>
    THEN 1..Len(quotes) ELSE {1}

\* Variant: after an error the loop goes on with the rest of the batch.
ReadyEffects_resuming(line, r, k, failed) ==
    /\ failed => faults < MaxFaults
    /\ seen_users' = r.seen
    /\ user_last_cmd' = r.ulc
    /\ quotes' = r.quotes
    /\ out' = out \o SubSeq(r.frames, 1, k)
    /\ clock' = clock + r.took + k * r.delay
    /\ faults' = IF failed THEN faults + 1 ELSE faults
    /\ log' = Append(log, [Entry(line, r.verdict, Len(r.frames), k, failed)
                              EXCEPT !.reply = r.reply])
    /\ pending' = Tail(pending)
    /\ pc' = IF failed THEN "backoff"
             ELSE IF Tail(pending) = <<>> THEN "recv" ELSE "lines"
\* The effects of one line of the steady-state loop, k of its frames being
\* sent before a send fails.
ReadyEffects(line, r, k, failed) ==
    /\ failed => faults < MaxFaults
    /\ seen_users' = r.seen
    /\ user_last_cmd' = r.ulc
    /\ quotes' = r.quotes
    /\ out' = out \o SubSeq(r.frames, 1, k)
    /\ clock' = clock + r.took + k * r.delay
    /\ faults' = IF failed THEN faults + 1 ELSE faults
    /\ log' = Append(log, [Entry(line, r.verdict, Len(r.frames), k, failed)
                              EXCEPT !.reply = r.reply])
    /\ IF failed
       THEN /\ pending' = <<>>
            /\ pc' = "backoff"
       ELSE /\ pending' = Tail(pending)
            /\ pc' = IF Tail(pending) = <<>> THEN "recv" ELSE "lines"

ReadySends(line, r) ==
    \E k \in 0..Len(r.frames) :
       ReadyEffects(line, r, k, r.raises \/ k < Len(r.frames))

ReadyLine ==
    /\ phase = "Ready"
    /\ pc = "lines"
    /\ \E o \in HandlerOutcomes(Head(pending)), pick \in HandlerPicks(Head(pending)) :
          ReadySends(Head(pending),
                     ready_line(Head(pending), clock, seen_users, user_last_cmd,
                                quotes, o, pick))
    /\ UNCHANGED <<input, phase, buffer, connected, arrived, ticks, exit>>

\* KeyboardInterrupt.  Only the steady-state try has a clause for it, and
\* there it is raised from inside the try unless the loop is in the sleep of
\* its except clause.  sent says whether the send of QUIT succeeds.
Interrupt(sent) ==
    /\ phase \in {"Connecting", "Handshaking", "Ready"}
    /\ LET caught == phase = "Ready" /\ pc \in {"recv", "lines"}
       IN /\ sent => caught
          /\ (caught /\ ~sent) => faults < MaxFaults
          /\ out' = IF sent THEN Append(out, send_raw(S_QUIT)) ELSE out
          /\ exit' = IF sent THEN "quit" ELSE IF caught THEN "quit_failed"
                     ELSE "crash"
          /\ faults' = IF caught /\ ~sent THEN faults + 1 ELSE faults
    /\ phase' = "Closed"
    /\ pc' = "done"
    /\ pending' = <<>>
    /\ UNCHANGED <<input, clock, buffer, connected, stores, log, arrived, ticks>>

Next ==
    \/ \E k \in 0..3 : Connect(k)
    \/ \E e \in ReadEnds : Recv(e)
    \/ RecvFault
    \/ PeerClose
    \/ RecvEOF
    \/ \E w \in Waits : Tick(w)
    \/ Backoff
    \/ HandshakeLine
    \/ ReadyLine
    \/ \E sent \in BOOLEAN : Interrupt(sent)

Spec == Init /\ [][Next]_vars

\* A session whose peer has closed is left with two steps of its own: the
\* read, which returns end-of-stream at once, and the end of the sleep of
\* an except clause.  Both happen if they can.  Interrupts, recv raising
\* and the time recv blocks are the environment's and are not forced.
LiveSpec == Init /\ [][Next]_vars /\ WF_vars(RecvEOF) /\ WF_vars(Backoff)

\* The command router alone: a connection that carries one command, or the
\* conversation about the quote store.
RouterInit ==
    /\ scn \in (Len(Scenarios) + 1)..Len(AllScenarios)
    /\ clock \in StartClocks
    /\ pos = 0
    /\ eof = FALSE
    /\ phase = "Connecting"
    /\ pc = "connect"
    /\ buffer = <<>>
    /\ pending = <<>>
    /\ connected = FALSE
    /\ seen_users = <<>>
    /\ quotes = <<>>
    /\ user_last_cmd = <<>>
    /\ out = <<>>
    /\ log = <<>>
    /\ arrived = 0
    /\ faults = 0
    /\ ticks = 0
    /\ exit = "none"

RouterNext ==
    \/ \E k \in 0..3 : Connect(k)
    \/ \E e \in ReadEnds : Recv(e)
    \/ RecvFault
    \/ Backoff
    \/ HandshakeLine
    \/ ReadyLine

RouterSpec == RouterInit /\ [][RouterNext]_vars

(***************************************************************************)
(* The Sanitizer on its own: a text is drawn from a bounded set, one of    *)
(* the functions is applied to it (pc names the function, pending holds    *)
(* what it returned), and the function is then applied to its own output.  *)
(* buffer holds the text; the session variables stay as constructed.       *)
(***************************************************************************)
MaxLen == 3
\* A letter, whitespace, a control character, a character outside
\* SAFE_TEXT_RE, and a character NICK_RE allows only after the first.
SanitizerAlphabet == {"a", " ", "^B", "*", "-"}
\* Runs of "a" that bring a short text to either side of each MAX_*_LEN.
PadLens == {0, 28, 78, 98, 198, 398}
SanitizerTexts ==
    UNION {[1..n -> SanitizerAlphabet] : n \in 0..MaxLen}
SanitizerInputs ==
    {t \o [i \in 1..n |-> "a"] : t \in SanitizerTexts, n \in PadLens}
SanitizerNames ==
    {"strip_irc_controls", "sanitize_location", "sanitize_term",
     "sanitize_nick", "sanitize_quote", "sanitize_generic"}
Sanitize(name, text) ==
    CASE name = "strip_irc_controls" -> strip_irc_controls(text)
      [] name = "sanitize_location" -> sanitize_location(text)
      [] name = "sanitize_term" -> sanitize_term(text)
      [] name = "sanitize_nick" -> sanitize_nick(text)
      [] name = "sanitize_quote" -> sanitize_quote(text)
      [] name = "sanitize_generic" -> sanitize_generic(text)

SanitizerInit ==
    /\ buffer \in SanitizerInputs
    /\ pc = "text"
    /\ pending = <<>>
    /\ scn = 1
    /\ clock = Epoch
    /\ pos = 0
    /\ eof = FALSE
    /\ phase = "Connecting"
    /\ connected = FALSE
    /\ seen_users = <<>>
    /\ quotes = <<>>
    /\ user_last_cmd = <<>>
    /\ out = <<>>
    /\ log = <<>>
    /\ arrived = 0
    /\ faults = 0
    /\ ticks = 0
    /\ exit = "none"

\* name(text)
SanitizeText(name) ==
    /\ pc = "text"
    /\ pc' = name
    /\ pending' = <<Sanitize(name, buffer)>>
    /\ UNCHANGED <<scn, pos, eof, clock, phase, buffer, connected, seen_users,
                   quotes, user_last_cmd, out, log, arrived, faults, ticks, exit>>

\* name(name(text)), for a text that name accepted
SanitizeAgain ==
    /\ pc \in SanitizerNames
    /\ Len(pending) = 1
    /\ pending[1] # None
    /\ pending' = Append(pending, Sanitize(pc, pending[1]))
    /\ UNCHANGED <<scn, pos, eof, clock, phase, pc, buffer, connected, seen_users,
                   quotes, user_last_cmd, out, log, arrived, faults, ticks, exit>>

SanitizerNext ==
    \/ \E name \in SanitizerNames : SanitizeText(name)
    \/ SanitizeAgain

SanitizerSpec == SanitizerInit /\ [][SanitizerNext]_vars

(***************************************************************************)
(* Properties.  Each is stated over the frames sent (out) and over the     *)
(* record of the lines the two loops processed (log), in the terms of the  *)
(* protocol and not of the operators above.                                *)
(***************************************************************************)
NoCRLF(c) == c \notin {CR, LF}
Lines_of(entries) == [i \in 1..Len(entries) |-> entries[i].line]
\* The complete lines of everything delivered so far, and what follows them.
Delivered == split(decode(SubSeq(Stream, 1, pos)), CRLF)
DeliveredLines == SubSeq(Delivered, 1, Len(Delivered) - 1)
Waiting == phase \in {"Handshaking", "Ready"} /\ pc = "recv" /\ faults = 0
IsPing(line) == Len(line) >= 4 /\ SubSeq(line, 1, 4) = <<"P", "I", "N", "G">>
IsPongFrame(f) == Len(f) >= 4 /\ SubSeq(f, 1, 4) = <<"P", "O", "N", "G">>
IsJoinFrame(f) == Len(f) >= 5 /\ SubSeq(f, 1, 5) = <<"J", "O", "I", "N", " ">>
HasMarker(line) ==
    \E i \in 1..(Len(line) - 4) :
       SubSeq(line, i, i + 4) \in {<<" ", "3", "7", "6", " ">>,
                                   <<" ", "4", "2", "2", " ">>}
HasMarkerToken(line) ==
    \E i \in 1..Len(split(line, <<" ">>)) :
       split(line, <<" ">>)[i] \in {<<"3", "7", "6">>, <<"4", "2", "2">>}
Accepted(e) ==
    e.phase = "Ready"
    /\ e.verdict \in {"handled", "usage", "invalid", "unknown", "raised", "empty"}
IsCommandEntry(e) ==
    e.phase = "Ready" /\ e.verdict \in {"handled", "usage", "invalid", "unknown",
                                         "raised", "empty", "rate_limited"}
Sender(e) == lower(e.msg.nick)
\* The step appends an entry to log: a line has just been processed.
Processed == Len(log') = Len(log) + 1
Last == log'[Len(log')]
FromOther(e) ==
    e.phase = "Ready" /\ ~IsPing(e.line) /\ e.msg.ok
    /\ e.msg.nick # <<"l", "e", "0">>
FromSelf(e) ==
    e.phase = "Ready" /\ ~IsPing(e.line) /\ e.msg.ok
    /\ e.msg.nick = <<"l", "e", "0">>

\* C1: whatever the cuts between reads, the lines the session has processed
\* when it waits for the next read are exactly the complete lines of the
\* bytes delivered so far, in order, and the carry buffer is the incomplete
\* fragment that follows them.
C1_SplitInvariance ==
    Waiting => /\ Lines_of(log) = DeliveredLines
               /\ buffer = Delivered[Len(Delivered)]

\* C2 (as stated): the session has completed the handshake exactly when the
\* handshake loop has seen a line with 376 or 422 as a space-delimited token.
C2_TokenTransition ==
    connected <=> \E i \in 1..Len(log) :
                     log[i].phase = "Handshaking" /\ HasMarkerToken(log[i].line)

\* C2 (amended): the handshake is complete exactly when the handshake loop
\* has processed a line containing " 376 " or " 422 ", a space on both
\* sides (and has sent that line's PONG, if the line is also a PING); the
\* JOIN frames ever sent are the configured channels in configured order up
\* to the first failed send, all of them sent while that line was
\* processed; none is sent before and none afterwards.
C2_JoinOnMarker ==
    LET marks == {i \in 1..Len(log) :
                     /\ log[i].phase = "Handshaking"
                     /\ HasMarker(log[i].line)
                     /\ IsPing(log[i].line) => log[i].sent >= 1}
        joins == {j \in 1..Len(out) : IsJoinFrame(out[j])}
        expected == << <<"J","O","I","N"," ","#","d","0","m","3","r",CR,LF>>,
                       <<"J","O","I","N"," ","#","b","l","c","k","n","d",CR,LF>> >>
    IN /\ connected <=> marks # {}
       /\ Cardinality(marks) <= 1
       /\ joins # {} => marks # {}
       /\ \A i \in marks :
             LET base == log[i].first + (IF IsPing(log[i].line) THEN 1 ELSE 0)
                 n == Cardinality(joins)
             IN /\ joins = base..(base + n - 1)
                /\ n <= Len(expected)
                /\ \A j \in 1..n : out[base + j - 1] = expected[j]
                /\ ~log[i].failed => n = Len(expected)
C2_Witness ==
    /\ phase = "Ready"
    /\ \E i \in 1..Len(log) : log[i].phase = "Ready" /\ HasMarker(log[i].line)
    /\ \E i \in 1..Len(log) :
          /\ log[i].phase = "Handshaking"
          /\ HasMarkerToken(log[i].line) /\ ~HasMarker(log[i].line)
    /\ Cardinality({j \in 1..Len(out) : IsJoinFrame(out[j])}) = 2

\* C3 (as stated): the PONG frame is the PING line with the leading PING
\* replaced and every other character kept.
C3_PongVerbatim ==
    \A i \in 1..Len(log) :
       (IsPing(log[i].line) /\ log[i].sent >= 1) =>
          out[log[i].first] = encode(<<"P", "O", "N", "G">>
                                     \o SubSeq(log[i].line, 5, Len(log[i].line))
                                     \o CRLF)

\* C3 (amended): the PONG frame is the PING line with the leading PING
\* replaced by PONG and every CR and LF character removed, followed by CRLF;
\* further occurrences of PING in the line are kept.
C3_PongSanitized ==
    \A i \in 1..Len(log) :
       (IsPing(log[i].line) /\ log[i].sent >= 1) =>
          out[log[i].first] =
             encode(<<"P", "O", "N", "G">>
                    \o SelectSeq(SubSeq(log[i].line, 5, Len(log[i].line)), NoCRLF)
                    \o CRLF)
C3_Witness ==
    /\ \E i \in 1..Len(log) :
          /\ IsPing(log[i].line) /\ log[i].sent >= 1
          /\ \E j \in 5..Len(log[i].line) : log[i].line[j] \in {CR, LF}
    /\ \E i \in 1..Len(log) :
          /\ IsPing(log[i].line) /\ log[i].sent >= 1
          /\ IsPing(SubSeq(log[i].line, 6, Len(log[i].line)))

\* C4: when the session waits for the next read, it has sent one PONG frame
\* for every complete PING line delivered to it, in Handshaking and in Ready
\* alike.
C4_EveryPingAnswered ==
    Waiting => Len(SelectSeq(out, IsPongFrame)) = Len(SelectSeq(DeliveredLines, IsPing))

\* C5: a command is rejected by the rate limiter only when the same identity
\* had a command accepted less than 2 seconds before; the first command of an
\* identity is admitted at whatever clock value.
C5_FirstAdmitted ==
    \A i \in 1..Len(log) :
       log[i].verdict = "rate_limited" =>
          \E j \in 1..(i - 1) :
             /\ Accepted(log[j])
             /\ Sender(log[j]) = Sender(log[i])
             /\ log[i].at - log[j].at < 20

\* C6: of two commands of one identity that arrive less than 2 seconds
\* apart, the first being accepted, the second is dropped.
C6_BurstDropped ==
    \A i \in 1..Len(log) : \A j \in 1..(i - 1) :
       (/\ Accepted(log[j])
        /\ IsCommandEntry(log[i])
        /\ Sender(log[j]) = Sender(log[i])
        /\ log[i].arrived - log[j].arrived < 20)
       => log[i].verdict = "rate_limited"

\* C7: a step in which a command is rejected by the rate limiter leaves the
\* rate-limit map as it was, sends no frame and leaves the quote list as it
\* was.
C7_RejectRecordsNothing ==
    [][(Processed /\ Last.verdict = "rate_limited")
          => /\ user_last_cmd' = user_last_cmd
             /\ out' = out
             /\ quotes' = quotes]_vars
C7_Witness ==
    \E i \in 1..Len(log) :
       /\ log[i].verdict = "rate_limited"
       /\ Sender(log[i]) \in DOMAIN user_last_cmd
       /\ user_last_cmd[Sender(log[i])] < log[i].at
       /\ user_last_cmd[Sender(log[i])] > 0

\* C8: every frame sent is text without CR and without LF followed by one
\* CRLF.
C8_OneLinePerFrame ==
    \A j \in 1..Len(out) :
       /\ Len(out[j]) >= 2
       /\ SubSeq(out[j], Len(out[j]) - 1, Len(out[j])) = <<CR, LF>>
       /\ \A n \in 1..(Len(out[j]) - 2) : out[j][n] \notin {CR, LF}
C8_Witness ==
    /\ password # None /\ \E n \in 1..Len(password) : password[n] = LF
    /\ Len(out) >= 3
    /\ \E i \in 1..Len(log) :
          /\ IsPing(log[i].line) /\ log[i].sent >= 1
          /\ \E n \in 1..Len(log[i].line) : log[i].line[n] = LF
    /\ exit = "quit"

\* C9: a step that processes a chat message whose sender is the bot's own
\* nickname changes no seen record, no rate-limit entry, no quote, and
\* sends nothing.
C9_NoSelfProcessing ==
    [][(Processed /\ FromSelf(Last))
          => /\ seen_users' = seen_users
             /\ user_last_cmd' = user_last_cmd
             /\ quotes' = quotes
             /\ out' = out]_vars
C9_Witness ==
    /\ \E i \in 1..Len(log) :
          /\ FromSelf(log[i])
          /\ log[i].msg.message = <<"%", "p", "i", "n", "g">>
    /\ \E i \in 1..Len(log) :
          /\ FromSelf(log[i])
          /\ log[i].msg.message = <<"h", "i">>

Spellings == {<<"a">>, <<"A">>, <<"b", "o", "b">>, <<"B", "o", "B">>}
LastFrom(i) ==
    /\ FromOther(log[i])
    /\ \A j \in (i + 1)..Len(log) :
          FromOther(log[j]) => Sender(log[j]) # Sender(log[i])
C11_SeenLookup ==
    LET m == [i \in 1..Len(log) |-> log[i].msg]
        other == [i \in 1..Len(log) |->
                     /\ log[i].phase = "Ready" /\ ~IsPing(log[i].line)
                     /\ m[i].ok /\ m[i].nick # <<"l", "e", "0">>]
        key == [i \in 1..Len(log) |-> lower(m[i].nick)]
    IN \A i \in 1..Len(log) :
          (other[i] /\ \A j \in (i + 1)..Len(log) : other[j] => key[j] # key[i])
          => /\ log[i].at <= clock
             /\ \A n \in Spellings :
                   lower(n) = key[i] =>
                      get_seen(seen_users, n, clock).text =
                         <<"<header>", "User Seen", "</header>", LF, "<arrow>">>
                         \o m[i].nick
                         \o <<" ", ToString((clock - log[i].at) \div 10), "s ago in ">>
                         \o m[i].channel
                         \o <<LF, "<arrow>", "Message: ">>
                         \o SubSeq(m[i].message, 1,
                                   IF Len(m[i].message) < 100
                                   THEN Len(m[i].message) ELSE 100)
C11_Witness ==
    \E i \in 1..Len(log) : \E j \in (i + 1)..Len(log) :
       /\ LastFrom(i)
       /\ Sender(log[i]) = <<"a">>
       /\ Len(log[i].msg.message) > 100
       /\ log[j].msg.message = <<"%", "s", "e", "e", "n", " ", "A">>
       /\ log[j].verdict = "handled"
       /\ log[j].sent = 3
       /\ clock > log[i].at

PartsOf(e) == words(e.msg.message)
NameOf(e) ==
    IF PartsOf(e) = <<>> \/ ~startswith(PartsOf(e)[1], command_prefix) THEN <<>>
    ELSE lower(SubSeq(PartsOf(e)[1], Len(command_prefix) + 1, Len(PartsOf(e)[1])))
\* The command has an argument and its Sanitizer transform rejects it.
LocationFails(e) ==
    /\ NameOf(e) \in {N_weather, N_w, N_forecast, N_f, N_time}
    /\ Len(PartsOf(e)) >= 2
    /\ sanitize_location(joinFrom(PartsOf(e), 2)) = None
SanitizeFails(e) ==
    \/ LocationFails(e)
    \/ /\ NameOf(e) \in {N_urban, N_ud}
       /\ Len(PartsOf(e)) >= 2
       /\ sanitize_term(joinFrom(PartsOf(e), 2)) = None
    \/ /\ NameOf(e) = N_seen
       /\ Len(PartsOf(e)) >= 2
       /\ sanitize_nick(PartsOf(e)[2]) = None
    \/ /\ NameOf(e) = N_addquote
       /\ Len(PartsOf(e)) >= 2
       /\ sanitize_quote(joinFrom(PartsOf(e), 2)) = None
    \/ /\ NameOf(e) \in {N_hash, N_reverse, N_mock}
       /\ Len(PartsOf(e)) >= 2
       /\ sanitize_generic(joinFrom(PartsOf(e), 2)) = None
    \/ /\ NameOf(e) \in {N_base64, N_b64}
       /\ Len(PartsOf(e)) >= 3
       /\ sanitize_generic(joinFrom(PartsOf(e), 3)) = None

\* C13: an admitted command whose argument fails its Sanitizer transform is
\* answered with exactly one invalid-input error text and its handler is
\* not invoked: the step is an "invalid" abort with one text to send.
C13_SanitizeFailureRejected ==
    [][(Processed /\ Accepted(Last) /\ SanitizeFails(Last))
          => /\ Last.verdict = "invalid"
             /\ Last.want = 1]_vars


\* The number of argument tokens a command needs.
Required(name) ==
    IF name \in {N_base64, N_b64} THEN 2
    ELSE IF name \in {N_weather, N_w, N_forecast, N_f, N_urban, N_ud, N_rps,
                      N_seen, N_addquote, N_calc, N_hash, N_reverse, N_mock}
    THEN 1 ELSE 0
Canonical(name) ==
    CASE name = N_w -> N_weather [] name = N_f -> N_forecast
      [] name = N_ud -> N_urban [] name = N_b64 -> N_base64 [] OTHER -> name
Prefixed(f, head) == Len(f) >= Len(head) /\ SubSeq(f, 1, Len(head)) = head

\* C14: an admitted command with fewer argument tokens than it needs is
\* aborted with one usage text and nothing else: unless the send fails, one
\* PRIVMSG frame is added, to the target of the message, whose text is the
\* error "Usage: " followed by the configured prefix and the command's name;
\* the quote list is left alone.
C14_UsageOnShortfall ==
    [][(Processed /\ Accepted(Last) /\ NameOf(Last) # <<>>
           /\ Len(PartsOf(Last)) - 1 < Required(NameOf(Last)))
          => /\ Last.verdict = "usage"
             /\ Last.want = 1
             /\ quotes' = quotes
             /\ IF Last.failed THEN out' = out
                ELSE /\ Len(out') = Len(out) + 1
                     /\ SubSeq(out', 1, Len(out)) = out
                     /\ Prefixed(out'[Len(out')],
                           <<"P", "R", "I", "V", "M", "S", "G", " ">>
                           \o SelectSeq(Last.msg.channel, NoCRLF)
                           \o <<" ", ":", "<error>", "Usage: ", "%">>
                           \o Canonical(NameOf(Last)) \o <<" ">>)
                     /\ \A n \in 1..(Len(out'[Len(out')]) - 2) :
                           NoCRLF(out'[Len(out')][n])]_vars
C14_Witness ==
    /\ phase = "Ready"
    /\ Len(log) = 2
    /\ log[2].verdict = "usage"
    /\ NameOf(log[2]) = N_b64
    /\ Len(PartsOf(log[2])) = 2
    /\ log[2].sent = 1
    /\ Prefixed(out[Len(out)],
                <<"P", "R", "I", "V", "M", "S", "G", " ", "#", "c", " ", ":",
                  "<error>", "Usage: ", "%", "b", "a", "s", "e", "6", "4", " ">>)


CommandNames ==
    {N_weather, N_w, N_forecast, N_f, N_urban, N_ud, N_time, N_coin, N_flip,
     N_roll, N_dice, N_8ball, N_8, N_rps, N_fact, N_seen, N_addquote, N_quote,
     N_uptime, N_ping, N_calc, N_hash, N_base64, N_b64, N_reverse, N_mock,
     N_help}
\* A chat message of somebody else that starts with the prefix and whose
\* first token is no command name or alias.
UnknownCommand(e) ==
    /\ FromOther(e)
    /\ Prefixed(e.msg.message, command_prefix)
    /\ NameOf(e) \notin CommandNames

\* C15: processing a prefixed message whose first token matches no command
\* name or alias sends no frame, leaves the quote list as it was and
\* changes no seen record but the sender's own.
C15_UnknownIgnored ==
    [][(Processed /\ UnknownCommand(Last))
          => /\ out' = out
             /\ Last.want = 0
             /\ quotes' = quotes
             /\ DOMAIN seen_users' = DOMAIN seen_users \cup {Sender(Last)}
             /\ \A k \in DOMAIN seen_users \ {Sender(Last)} :
                   seen_users'[k] = seen_users[k]]_vars
C15_Witness ==
    /\ \E i \in 1..Len(log) :
          /\ UnknownCommand(log[i])
          /\ log[i].verdict = "unknown"
          /\ Sender(log[i]) = <<"b", "o", "b">>
          /\ \E j \in 1..(i - 1) : log[j].verdict = "handled" /\ log[j].sent = 1
    /\ DOMAIN seen_users = {<<"a">>, <<"b", "o", "b">>}
    /\ seen_users[<<"b", "o", "b">>].message = <<"%", "z", "z">>


FramesInOrder ==
    /\ \A i \in 1..Len(log) :
          /\ log[i].first + log[i].sent <= Len(out) + 1
          /\ log[i].sent > 0 =>
                LET e == log[i]
                    m == e.msg
                    head == <<"P", "R", "I", "V", "M", "S", "G", " ">>
                IN /\ \A n \in e.first..(e.first + e.sent - 1) :
                         IF e.phase = "Handshaking"
                         THEN IsPongFrame(out[n]) \/ IsJoinFrame(out[n])
                         ELSE IF IsPing(e.line) THEN IsPongFrame(out[n])
                         ELSE Prefixed(out[n], head \o SelectSeq(m.channel, NoCRLF)
                                                    \o <<" ", ":">>)
                   /\ (e.phase = "Ready" /\ e.verdict = "handled"
                          /\ lower(words(m.message)[1]) = <<"%">> \o N_help)
                         => \A j \in 1..e.sent :
                               out[e.first + j - 1] =
                                  head \o m.channel \o <<" ", ":">>
                                  \o help_lines[j] \o CRLF
    /\ \A i \in 1..(Len(log) - 1) :
          /\ log[i + 1].first = log[i].first + log[i].sent
          /\ log[i].arrived <= log[i + 1].arrived
    /\ log # <<>> => /\ log[1].first = Len(registration) + 1
                     /\ SubSeq(out, 1, Len(registration)) = registration

\* C17: the line a step processes is the first of those read and not yet
\* processed, the rest keep their order (or are dropped), nothing is read
\* while lines wait, and all frames caused by one line lie together in out
\* before any frame of a line processed later.
C17_NoInterleaving ==
    /\ []FramesInOrder
    /\ [][Processed => /\ Last.line = Head(pending)
                       /\ pending' \in {Tail(pending), <<>>}]_vars
    /\ [][(~Processed /\ pending' # pending)
             => (pending = <<>> \/ pending' = <<>>)]_vars
C17_Witness ==
    /\ Len(log) >= 3
    /\ log[2].verdict = "handled" /\ NameOf(log[2]) = N_help /\ log[2].sent = 10
    /\ log[3].verdict = "handled" /\ NameOf(log[3]) = N_ping /\ log[3].sent = 1
    /\ log[2].arrived = log[3].arrived


\* C18: an interrupt in Handshaking or Ready closes the session with QUIT
\* attempted (sent, or its send failed) before the loop is left, and once
\* Closed nothing is read, processed or sent.
C18_InterruptQuits ==
    /\ [][(phase \in {"Handshaking", "Ready"} /\ phase' = "Closed")
             => /\ exit' \in {"quit", "quit_failed"}
                /\ exit' = "quit" => out' = Append(out, send_raw(S_QUIT))]_vars
    /\ [][phase = "Closed"
             => /\ phase' = "Closed"
                /\ pos' = pos
                /\ log' = log
                /\ out' = out]_vars


\* C19: once the peer has closed the stream and the loop is at its read, so
\* that the transport read returns end-of-stream, the session eventually
\* reaches Closed.
C19_DeadTransportCloses == (eof /\ pc = "recv") ~> (phase = "Closed")


\* C20: an error raised by a read or while a line is processed, in
\* Handshaking or in Ready, leaves the session in its state with its carry
\* buffer, and loses no seen record, quote or rate-limit entry; the backoff
\* that follows changes none of them either and leads back to the read.
C20_FaultsNotFatal ==
    /\ [][(faults' = faults + 1 /\ phase \in {"Handshaking", "Ready"}
              /\ exit' = "none")
             => /\ phase' = phase
                /\ pc' = "backoff"
                /\ pc = "recv" => buffer' = buffer
                /\ DOMAIN seen_users \subseteq DOMAIN seen_users'
                /\ DOMAIN user_last_cmd \subseteq DOMAIN user_last_cmd'
                /\ Len(quotes') >= Len(quotes)
                /\ SubSeq(quotes', 1, Len(quotes)) = quotes]_vars
    /\ [][(pc = "backoff" /\ pc' # "backoff" /\ phase' # "Closed")
             => /\ phase' = phase
                /\ pc' = "recv"
                /\ buffer' = buffer
                /\ seen_users' = seen_users
                /\ quotes' = quotes
                /\ user_last_cmd' = user_last_cmd]_vars


\* C21: processing an admitted command never raises into the session loop:
\* whatever the handler meets and whatever happens to the sends, the step
\* ends without an exception and the loop goes on with the rest of the read.
C21_CommandNeverRaises ==
    [][(Processed /\ Accepted(Last))
          => /\ ~Last.failed
             /\ pc' \in {"recv", "lines"}
             /\ pending' = Tail(pending)]_vars


\* The registration frames, written out.
ExpectedRegistration ==
    (IF password # None
     THEN << <<"P", "A", "S", "S", " ">> \o SelectSeq(password, NoCRLF) \o CRLF >>
     ELSE <<>>)
    \o << <<"N", "I", "C", "K", " ", "l", "e", "0", CR, LF>>,
          <<"U", "S", "E", "R", " ", "l", "e", "0", " ", "0", " ", "*", " ", ":",
            "l", "e", "0", CR, LF>> >>

\* C22: the first frames sent are PASS (only with a password configured),
\* NICK and USER, in that order; nothing is sent before connect() and, until
\* the handshake loop has processed a line, nothing else is sent; the
\* handshake loop starts only when all of them have been sent.
C22_RegistrationOrder ==
    /\ phase = "Connecting" => out = <<>>
    /\ \A j \in 1..Len(out) :
          j <= Len(ExpectedRegistration) => out[j] = ExpectedRegistration[j]
    /\ phase \in {"Handshaking", "Ready"} => Len(out) >= Len(ExpectedRegistration)
    /\ log = <<>> => Len(out) <= Len(ExpectedRegistration)
C22_Witness ==
    /\ phase = "Handshaking"
    /\ pc = "lines"
    /\ log = <<>>
    /\ password # None
    /\ Len(out) = 3
    /\ out[1] = <<"P", "A", "S", "S", " ", "p", "w", CR, LF>>


\* A PRIVMSG frame to the target of entry e with the given text.
ReplyFrame(e, text) ==
    <<"P", "R", "I", "V", "M", "S", "G", " ">> \o e.msg.channel \o <<" ", ":">>
    \o text \o CRLF

\* C23: the quote list changes only by a handled addquote, which puts one
\* entry (the cleaned text, the sender, the time) at its end and leaves the
\* entries before it as they were; the number addquote reports is the
\* position of that entry, and the number a lookup reports is a position at
\* which the list holds the text and the author it shows.
C23_QuotesAppendOnly ==
    [][/\ Len(quotes') >= Len(quotes)
       /\ SubSeq(quotes', 1, Len(quotes)) = quotes
       /\ quotes' # quotes
             => /\ Processed
                /\ Last.verdict = "handled"
                /\ NameOf(Last) = N_addquote
                /\ quotes' = Append(quotes,
                      [quote |-> sanitize_quote(joinFrom(PartsOf(Last), 2)),
                       added_by |-> Last.msg.nick,
                       timestamp |-> clock])
       /\ (Processed /\ Accepted(Last) /\ Last.verdict = "handled"
              /\ NameOf(Last) = N_addquote)
             => /\ Len(quotes') = Len(quotes) + 1
                /\ Last.want = 1
                /\ Last.sent = 1
                      => out'[Len(out')] =
                            ReplyFrame(Last,
                               <<"<success>", "Quote #", ToString(Len(quotes) + 1),
                                 " added by ">> \o Last.msg.nick
                               \o <<"</success>">>)
       /\ (Processed /\ Accepted(Last) /\ Last.verdict = "handled"
              /\ NameOf(Last) = N_quote /\ quotes # <<>> /\ Last.sent = 3)
             => \E n \in 1..Len(quotes) :
                   SubSeq(out', Len(out) + 1, Len(out) + 3) =
                      <<ReplyFrame(Last, <<"<header>", "Quote #", ToString(n),
                                           "</header>">>),
                        ReplyFrame(Last, <<"<arrow>">> \o quotes[n].quote),
                        ReplyFrame(Last, <<"<arrow>", "added by ">>
                                         \o quotes[n].added_by)>>]_vars
C23_Witness ==
    /\ Len(quotes) = 2
    /\ quotes[1].added_by = <<"c">>
    /\ quotes[2].added_by = <<"a">>
    /\ Len(log) = 6
    /\ log[6].verdict = "handled"
    /\ NameOf(log[6]) = N_quote
    /\ log[6].sent = 3
    /\ out[Len(out) - 2] = ReplyFrame(log[6], <<"<header>", "Quote #", "2", "</header>">>)


\* The store holds carol's "Hello world" and nothing else, and the line
\* being processed is a %quote message of somebody other than the bot.
QuoteAfterHello(e) ==
    /\ FromOther(e)
    /\ NameOf(e) = N_quote
    /\ Len(quotes) = 1
    /\ quotes[1].quote = <<"H", "e", "l", "l", "o", " ", "w", "o", "r", "l", "d">>
    /\ quotes[1].added_by = <<"c">>
HelloReply(e) ==
    <<ReplyFrame(e, <<"<header>", "Quote #", "1", "</header>">>),
      ReplyFrame(e, <<"<arrow>", "H", "e", "l", "l", "o", " ", "w", "o", "r", "l", "d">>),
      ReplyFrame(e, <<"<arrow>", "added by ", "c">>)>>

\* C24 (as stated): a %quote message that follows carol's addquote of
\* "Hello world" into an empty store is answered with the quote and its
\* author.
C24_QuoteAfterAdd ==
    [][(Processed /\ QuoteAfterHello(Last) /\ ~Last.failed)
          => out' = out \o HelloReply(Last)]_vars

\* C24 (amended): such a %quote message is dropped without a reply when
\* the rate limiter rejects it, which it does when its sender's last
\* admitted command (carol's addquote, if carol asks) is less than 2 seconds
\* old; otherwise it is answered with three frames, the number 1, the text
\* "Hello world" and the author carol, up to the first send that fails.
C24_QuoteAfterAddAdmitted ==
    [][(Processed /\ QuoteAfterHello(Last))
          => IF /\ Sender(Last) \in DOMAIN user_last_cmd
                /\ clock - user_last_cmd[Sender(Last)] < 20
             THEN /\ Last.verdict = "rate_limited"
                  /\ out' = out
             ELSE /\ Last.verdict = "handled"
                  /\ Last.want = 3
                  /\ out' = out \o SubSeq(HelloReply(Last), 1, Last.sent)
                  /\ Last.sent < 3 => Last.failed]_vars
C24_Witness ==
    /\ Len(log) >= 4
    /\ log[2].verdict = "handled" /\ NameOf(log[2]) = N_addquote
    /\ Sender(log[2]) = <<"c">>
    /\ log[3].verdict = "rate_limited" /\ Sender(log[3]) = <<"c">>
    /\ log[4].verdict = "handled" /\ NameOf(log[4]) = N_quote /\ log[4].sent = 3
    /\ SubSeq(out, log[4].first, log[4].first + 2) = HelloReply(log[4])


\* Every key of the two maps is lower-cased and every seen record's display
\* form lower-cases to its key.
KeysNormalized ==
    /\ \A k \in DOMAIN seen_users :
          k = lower(k) /\ lower(seen_users[k].nick) = k
    /\ \A k \in DOMAIN user_last_cmd : k = lower(k)

\* C25: the keys of both maps are lower-cased identities with the display
\* form kept beside them, and a sender whose name differs from the bot's
\* nickname only in letter case is taken for the bot: its message is
\* skipped like the bot's own.
C25_UniformNormalization ==
    /\ []KeysNormalized
    /\ [][(Processed /\ Last.phase = "Ready" /\ ~IsPing(Last.line) /\ Last.msg.ok
             /\ lower(Last.msg.nick) = <<"l", "e", "0">>)
            => /\ Last.verdict = "self"
               /\ seen_users' = seen_users
               /\ user_last_cmd' = user_last_cmd
               /\ out' = out]_vars

\* C26: strip_irc_controls applied twice gives what it gives applied once,
\* for every text over an alphabet that holds a control character;
\* sanitize_nick returns None or a name of 1 to 30 characters whose first
\* character is a letter or an allowed symbol and whose other characters
\* are letters, digits, allowed symbols or "-", with no control character
\* and no surrounding whitespace left in it; and each sanitize_* function
\* returns its own accepted output unchanged.
NickGrammar(n) ==
    /\ Len(n) \in 1..30
    /\ n[1] \in Range(LowerAlpha) \cup Range(UpperAlpha)
                \cup {"_", "[", "]", "^", "{", "}", "|"}
    /\ \A i \in 2..Len(n) :
          n[i] \in Range(LowerAlpha) \cup Range(UpperAlpha) \cup Digits
                   \cup {"_", "[", "]", "^", "{", "}", "|", "-"}
C26_SanitizerIdempotent ==
    /\ (pc = "strip_irc_controls" /\ Len(pending) >= 1)
          => Range(pending[1]) \cap ControlChars = {}
    /\ (pc \in SanitizerNames /\ Len(pending) = 2) => pending[2] = pending[1]
    /\ (pc = "sanitize_nick" /\ Len(pending) >= 1)
          => \/ pending[1] = None
             \/ /\ NickGrammar(pending[1])
                /\ pending[1] = strip(SelectSeq(buffer, LAMBDA c : c # "^B"))
C26_Witness ==
    /\ pc = "sanitize_nick"
    /\ Len(pending) = 2
    /\ Len(pending[1]) = 30
    /\ pending[2] = pending[1]
    /\ "^B" \in Range(buffer)
    /\ Len(buffer) = 31

\* The chat-delivery frame ":<identity>!<user>@<host> PRIVMSG <target> :<text>":
\* the first token is the prefix, the second the verb, the third the target,
\* and the text starts at the fourth.
WellFormedChat(line) ==
    LET t == split(line, <<" ">>)
    IN /\ Len(t) >= 4
       /\ Len(t[1]) >= 6
       /\ t[1][1] = ":"
       /\ \E i \in 3..Len(t[1]), j \in 5..Len(t[1]) :
             /\ t[1][i] = "!"
             /\ t[1][j] = "@"
             /\ i + 1 < j
             /\ j < Len(t[1])
       /\ t[2] = <<"P", "R", "I", "V", "M", "S", "G">>
       /\ t[3] # <<>>
       /\ t[4] # <<>>
       /\ t[4][1] = ":"

\* C27: in Ready, processing a line that neither starts with PING nor is a
\* well-formed chat-delivery frame sends no frame, leaves the seen records,
\* the quotes and the rate-limit entries as they were, raises nothing and
\* leaves the session in Ready.
C27_NonChatIgnored ==
    [][(Processed /\ Last.phase = "Ready" /\ ~IsPing(Last.line)
          /\ ~WellFormedChat(Last.line))
          => /\ Last.verdict = "ignored"
             /\ ~Last.failed
             /\ out' = out
             /\ seen_users' = seen_users
             /\ quotes' = quotes
             /\ user_last_cmd' = user_last_cmd
             /\ phase' = "Ready"]_vars

\* An admitted %seen whose argument is a valid name with no seen record at
\* the moment the message arrives.
SeenUnknown(e) ==
    /\ FromOther(e)
    /\ Accepted(e)
    /\ NameOf(e) = N_seen
    /\ Len(PartsOf(e)) >= 2
    /\ NickGrammar(PartsOf(e)[2])
    /\ lower(PartsOf(e)[2]) \notin DOMAIN seen_users
NotSeenReply(e) ==
    <<ReplyFrame(e, <<"<error>", "Haven't seen ">> \o PartsOf(e)[2]
                    \o <<" yet", "</error>">>)>>
OwnSeenReply(e) ==
    <<ReplyFrame(e, <<"<header>", "User Seen", "</header>">>),
      ReplyFrame(e, <<"<arrow>">> \o e.msg.nick \o <<" ", "0", "s ago in ">>
                    \o e.msg.channel),
      ReplyFrame(e, <<"<arrow>", "Message: ">> \o e.msg.message)>>

\* C28 (as stated): an admitted %seen X, with no seen record for X when the
\* message arrives, is answered with one frame, the error that X has not
\* been seen, whoever sent it.
C28_UnseenReported ==
    [][(Processed /\ SeenUnknown(Last) /\ ~Last.failed)
          => out' = out \o NotSeenReply(Last)]_vars

\* C28 (amended): such a message is answered with that one error frame when
\* its sender is not X; when the sender is X itself, in any letter case, the
\* message has been recorded before the lookup and the answer is the three
\* frames of the seen report of that very message.  A send that fails cuts
\* the answer short.
C28_UnseenReportedToOthers ==
    [][(Processed /\ SeenUnknown(Last))
          => LET answer == IF lower(PartsOf(Last)[2]) = Sender(Last)
                           THEN OwnSeenReply(Last) ELSE NotSeenReply(Last)
             IN /\ Last.verdict = "handled"
                /\ Last.want = Len(answer)
                /\ out' = out \o SubSeq(answer, 1, Last.sent)
                /\ Last.sent < Len(answer) => Last.failed]_vars
C28_Witness ==
    \E i \in 1..Len(log) : \E j \in 1..Len(log) :
       /\ log[i].msg.message = <<"%", "s", "e", "e", "n", " ", "x">>
       /\ log[i].verdict = "handled" /\ log[i].sent = 1
       /\ out[log[i].first] = NotSeenReply(log[i])[1]
       /\ <<"x">> \notin DOMAIN seen_users
       /\ log[j].msg.message = <<"%", "s", "e", "e", "n", " ", "B", "o", "B">>
       /\ log[j].msg.nick = <<"b", "o", "b">>
       /\ log[j].verdict = "handled" /\ log[j].sent = 3
       /\ \A k \in 1..(j - 1) : ~(log[k].msg.ok /\ Sender(log[k]) = <<"b", "o", "b">>)

\* C29: the step that completes the handshake processes a line that holds
\* the 376/422 marker, sends nothing but that line's own PONG and the JOINs,
\* touches no store and drops the lines that follow it in the batch; the
\* session enters Ready with no line pending and an empty carry buffer, so
\* the ready loop starts from a fresh read.
C29_TransitionDiscards ==
    [][/\ (~connected /\ connected')
            => /\ Processed
               /\ Last.phase = "Handshaking"
               /\ HasMarker(Last.line)
               /\ pending' = <<>>
               /\ \A n \in (Len(out) + 1)..Len(out') :
                     \/ IsJoinFrame(out'[n])
                     \/ n = Len(out) + 1 /\ IsPing(Last.line) /\ IsPongFrame(out'[n])
               /\ seen_users' = seen_users
               /\ quotes' = quotes
               /\ user_last_cmd' = user_last_cmd
       /\ (phase = "Handshaking" /\ phase' = "Ready")
            => /\ connected'
               /\ pending' = <<>>
               /\ buffer' = <<>>
               /\ pc' = "recv"
       /\ (Processed /\ Last.phase = "Ready")
            => phase = "Ready" /\ pending # <<>> /\ Last.line = Head(pending)]_vars
\* One read brought the marker, a PING and a chat frame: the whole stream has
\* been read, the PING after the marker has no PONG and the sender of the
\* chat frame has no seen record.
C29_Witness ==
    /\ scn = 1
    /\ phase = "Ready"
    /\ pos = Len(Stream)
    /\ pc = "recv"
    /\ Len(log) = 2
    /\ log[1].verdict = "pong"
    /\ log[2].verdict = "marker"
    /\ Cardinality({n \in 1..Len(out) : IsPongFrame(out[n])}) = 1
    /\ seen_users = <<>>
    /\ buffer = <<>>

\* C30: when the processing of a line fails in Ready, the rest of the read
\* batch is dropped and the loop sleeps; the carry buffer is left as the read
\* set it, an unfinished line with no CRLF in it; the sleep ends in the next
\* read, with nothing pending, nothing sent and the buffer as it was.
C30_ErrorDropsBatch ==
    [][/\ (Processed /\ Last.phase = "Ready" /\ Last.failed)
            => /\ pending' = <<>>
               /\ pc' = "backoff"
               /\ phase' = "Ready"
               /\ buffer' = buffer
               /\ ~contains(buffer, CRLF)
       /\ (phase = "Ready" /\ pc = "backoff" /\ pc' # "backoff" /\ phase' = "Ready")
            => /\ pc' = "recv"
               /\ pending' = <<>>
               /\ buffer' = buffer
               /\ out' = out
               /\ log' = log
               /\ clock' = clock + 50]_vars
\* The PONG of a PING fails with a chat message behind it in the batch: that
\* message is never recorded, the one of the next read is, and the
\* unfinished line is still in the buffer.
C30_Witness ==
    /\ Len(log) = 3
    /\ log[2].phase = "Ready" /\ log[2].verdict = "pong" /\ log[2].failed
    /\ log[3].verdict = "chat" /\ log[3].msg.nick = <<"b", "o", "b">>
    /\ log[3].at >= log[2].at + 50
    /\ DOMAIN seen_users = {<<"b", "o", "b">>}
    /\ buffer = <<"x">>
    /\ pos = Len(Stream)
    /\ pc = "recv"

\* C31: every admitted message that starts with the prefix sets its sender's
\* one rate-limit time to the time it is processed, whether its command is
\* carried out, unknown, short of an argument or given a rejected one; and a
\* prefixed message from a sender whose time is less than 2 seconds old is
\* dropped: no frame, no new time, no quote.
C31_SharedCooldown ==
    [][/\ (Processed /\ FromOther(Last) /\ Accepted(Last))
            => /\ Prefixed(Last.msg.message, command_prefix)
               /\ user_last_cmd' = (Sender(Last) :> Last.at) @@ user_last_cmd
       /\ (Processed /\ FromOther(Last) /\ Prefixed(Last.msg.message, command_prefix)
             /\ Sender(Last) \in DOMAIN user_last_cmd
             /\ Last.at - user_last_cmd[Sender(Last)] < 20)
            => /\ Last.verdict = "rate_limited"
               /\ out' = out
               /\ user_last_cmd' = user_last_cmd
               /\ quotes' = quotes]_vars
\* The four messages that are not carried out are each followed by a dropped
\* %ping of the same sender.
C31_Witness ==
    /\ Len(log) = 9
    /\ log[2].verdict = "unknown" /\ log[2].msg.message = <<"%", "z", "z">>
    /\ log[4].verdict = "unknown" /\ log[4].msg.message = <<"%">>
    /\ log[6].verdict = "usage"
    /\ log[8].verdict = "invalid"
    /\ \A i \in {3, 5, 7, 9} :
          /\ log[i].verdict = "rate_limited"
          /\ log[i].msg.message = <<"%", "p", "i", "n", "g">>
          /\ Sender(log[i]) = Sender(log[i - 1])
          /\ log[i].at - log[i - 1].at < 20
    /\ DOMAIN user_last_cmd = {<<"a">>, <<"b", "o", "b">>, <<"c">>, <<"d">>}

AddressedTo(f, target) ==
    Prefixed(f, <<"P", "R", "I", "V", "M", "S", "G", " ">> \o target \o <<" ", ":">>)

\* C32 (as stated): every frame sent in reply to a chat message is addressed
\* to the target of that message exactly as it was received, and the
\* sender's seen record holds that target as its channel.
C32_RepliesToTarget ==
    [][(Processed /\ FromOther(Last))
          => /\ \A n \in (Len(out) + 1)..Len(out') :
                   AddressedTo(out'[n], Last.msg.channel)
             /\ seen_users'[Sender(Last)].channel = Last.msg.channel]_vars

\* C32 (amended): every frame sent in reply to a chat message is addressed
\* to the target of that message with its CR and LF characters removed (the
\* target itself when it has none, the bot's own nickname for a private
\* message) and not to the sender, while the sender's seen record holds the
\* target exactly as it was received.
C32_RepliesToCleanTarget ==
    [][(Processed /\ FromOther(Last))
          => /\ \A n \in (Len(out) + 1)..Len(out') :
                   /\ AddressedTo(out'[n], SelectSeq(Last.msg.channel, NoCRLF))
                   /\ ~AddressedTo(out'[n], Last.msg.nick)
             /\ seen_users'[Sender(Last)].channel = Last.msg.channel]_vars
C32_Witness ==
    /\ Len(log) = 3
    /\ log[2].msg.nick = <<"a">> /\ log[2].msg.channel = <<"l", "e", "0">>
    /\ log[2].sent >= 1
    /\ AddressedTo(out[log[2].first], <<"l", "e", "0">>)
    /\ seen_users[<<"a">>].channel = <<"l", "e", "0">>
    /\ log[3].msg.channel = <<"#", CR, "c">>
    /\ log[3].sent >= 1
    /\ AddressedTo(out[log[3].first], <<"#", "c">>)
    /\ seen_users[<<"b", "o", "b">>].channel = <<"#", CR, "c">>

JoinFrames(o) == SelectSeq(o, IsJoinFrame)
JoinOf(c) == <<"J", "O", "I", "N", " ">> \o c \o CRLF

\* C33: when the send of a JOIN fails on the marker line, the frames sent for
\* that line are its PONG, if it is a PING, and the JOINs of the channels
\* before the failed one; connected is set all the same, so the sleep that
\* follows ends in Ready; and once connected is set no JOIN is ever sent.
C33_JoinFailureEntersReady ==
    [][/\ (Processed /\ Last.phase = "Handshaking" /\ HasMarker(Last.line)
             /\ Last.failed /\ Last.sent >= (IF IsPing(Last.line) THEN 1 ELSE 0))
            => /\ connected'
               /\ pc' = "backoff"
               /\ LET k == Last.sent - (IF IsPing(Last.line) THEN 1 ELSE 0)
                  IN /\ k < Len(channels)
                     /\ JoinFrames(out') = [i \in 1..k |-> JoinOf(channels[i])]
       /\ (connected /\ phase = "Handshaking" /\ pc = "backoff"
             /\ pc' # "backoff" /\ phase' # "Closed")
            => phase' = "Ready" /\ pc' = "recv"
       /\ connected => connected' /\ JoinFrames(out') = JoinFrames(out)]_vars
\* The second JOIN failed: the session is in Ready, has answered a command
\* there, and the only JOIN ever sent is the one for the first channel.
C33_Witness ==
    /\ phase = "Ready"
    /\ pos = Len(Stream)
    /\ pc = "recv"
    /\ JoinFrames(out) = <<JoinOf(channels[1])>>
    /\ \E i \in 1..Len(log) :
          /\ log[i].phase = "Handshaking" /\ log[i].failed /\ log[i].verdict = "marker"
          /\ \E j \in (i + 1)..Len(log) :
                log[j].phase = "Ready" /\ log[j].verdict = "handled"

\* C34: in Handshaking the seen records, the quotes and the rate-limit times
\* are empty and every frame sent after the registration is a PONG or a
\* JOIN; a chat message processed there sends nothing unless it holds the
\* marker, and then only the JOINs; and the three stores are still empty in
\* the step that enters Ready.
C34_HandshakeSendsOnlyPongJoin ==
    /\ phase = "Handshaking"
          => /\ seen_users = <<>> /\ quotes = <<>> /\ user_last_cmd = <<>>
             /\ \A n \in (Len(ExpectedRegistration) + 1)..Len(out) :
                   IsPongFrame(out[n]) \/ IsJoinFrame(out[n])
    /\ \A i \in 1..Len(log) :
          log[i].phase = "Handshaking"
          => /\ log[i].verdict \in {"ignored", "pong", "marker", "pong+marker"}
             /\ \A n \in log[i].first..(log[i].first + log[i].sent - 1) :
                   IsPongFrame(out[n]) \/ IsJoinFrame(out[n])
             /\ log[i].msg.ok
                   => /\ log[i].verdict \in {"ignored", "marker"}
                      /\ log[i].verdict = "ignored" => log[i].sent = 0
    /\ (phase = "Ready" /\ \A i \in 1..Len(log) : log[i].phase = "Handshaking")
          => seen_users = <<>> /\ quotes = <<>> /\ user_last_cmd = <<>>
\* A %ping sent to the channel arrives before the marker: nothing is sent for
\* it, and Ready is entered with the three stores empty.
C34_Witness ==
    /\ phase = "Ready"
    /\ Len(log) = 2
    /\ log[1].phase = "Handshaking"
    /\ log[1].msg.ok /\ log[1].msg.message = <<"%", "p", "i", "n", "g">>
    /\ log[1].verdict = "ignored" /\ log[1].sent = 0
    /\ log[2].phase = "Handshaking" /\ log[2].verdict = "pong+marker"
    /\ seen_users = <<>> /\ quotes = <<>> /\ user_last_cmd = <<>>
    /\ Len(JoinFrames(out)) = Len(channels)

=============================================================================
